---- MODULE Spec2Model ----
(***************************************************************************)
(* Language core of the LEBL editor: lexer, block-structure insertion,     *)
(* trivia attachment, recursive-descent parser, surface <-> IR translation *)
(* and the lossless / pretty renderer, together with the command layer     *)
(* that drives them.  Text is a sequence of one-character strings.         *)
(***************************************************************************)
EXTENDS Integers, Sequences, FiniteSets, TLC

(* ------------------------------------------------------------------ *)
(* Characters                                                          *)
(* ------------------------------------------------------------------ *)
NoChar == ""
NL == "\n"
TAB == "\t"
BACKSLASH == "\\"
DQUOTE == "\""
SQUOTE == "'"
HASH == "#"

Digits == {"0", "1", "2", "3", "4", "5", "6", "7", "8", "9"}
Letters ==
  {"a", "b", "c", "d", "e", "f", "g", "h", "i", "j", "k", "l", "m",
   "n", "o", "p", "q", "r", "s", "t", "u", "v", "w", "x", "y", "z",
   "A", "B", "C", "D", "E", "F", "G", "H", "I", "J", "K", "L", "M",
   "N", "O", "P", "Q", "R", "S", "T", "U", "V", "W", "X", "Y", "Z"}
IdentStart == Letters \cup {"_"}
IdentPart == Letters \cup Digits \cup {"_"}
NumberPart == Digits \cup {"."}
Blanks == {" ", TAB}

\* every modelled character is ASCII, one byte in UTF-8
len_utf8(ch) == 1

(* ------------------------------------------------------------------ *)
(* Positions, spans, token kinds                                       *)
(* ------------------------------------------------------------------ *)
Position(l, c, o) == [line |-> l, column |-> c, offset |-> o]
Position_default == Position(1, 1, 0)
Span_join(s, e) == [start |-> s, end |-> e]
Span_default == Span_join(Position_default, Position_default)

NoneUsize == [some |-> FALSE, val |-> 0]
SomeUsize(v) == [some |-> TRUE, val |-> v]

KIdentifier(name) == [tag |-> "Identifier", name |-> name]
KNumber(raw) == [tag |-> "Number", raw |-> raw]
KString(raw, value, quote, escaped) ==
  [tag |-> "String", raw |-> raw, value |-> value, quote |-> quote, escaped |-> escaped]
KKeyword(kw) == [tag |-> "Keyword", kw |-> kw]
KOperator(op) == [tag |-> "Operator", op |-> op]
KPunct(tag) == [tag |-> tag]
KNewline == [tag |-> "Newline"]
KIndent(level) == [tag |-> "Indent", level |-> level]
KDedent(level) == [tag |-> "Dedent", level |-> level]
KComment(text) == [tag |-> "Comment", text |-> text]
KRawWhitespace(text) == [tag |-> "RawWhitespace", text |-> text]
KBlank(src) == [tag |-> "Blank", source |-> src]
KFString(parts, quote) == [tag |-> "FString", parts |-> parts, quote |-> quote]
KEof == [tag |-> "Eof"]
KIndentation(width) == [tag |-> "Indentation", width |-> width]

is_trivia(kind) == kind.tag \in {"Comment", "RawWhitespace", "Blank", "Indentation"}

\* TokenKind::tag: trivia kinds are mapped onto TokenTag::Eof
TokenTagOf(kind) == IF is_trivia(kind) THEN "Eof" ELSE kind.tag

LexToken(kind, span, raw) == [kind |-> kind, span |-> span, raw |-> raw]

ParseError(message, span) == [message |-> message, span |-> span]
Err(error) == [ok |-> FALSE, error |-> error]

\* `let x = v;` followed by the rest K of the function body: v is bound once
Let(v, K(_)) == K(v)

\* `let v = ..; w`: w, with v evaluated before it
After(v, w) == IF v = v THEN w ELSE w

\* The functions that are called from many places are called by name: Call(f, ..)
\* evaluates f on its arguments
RECURSIVE Call(_, _, _, _)

(* ------------------------------------------------------------------ *)
(* Lexer                                                               *)
(* ------------------------------------------------------------------ *)
Lexer_new(src) ==
  [source |-> src, offset |-> 0, char_index |-> 0, line |-> 1, column |-> 1,
   paren_depth |-> 0, indent_width |-> NoneUsize, at_line_start |-> TRUE,
   line_has_content |-> FALSE, tokens |-> <<>>]

peek_char(lx) ==
  IF lx.char_index < Len(lx.source) THEN lx.source[lx.char_index + 1] ELSE NoChar

advance_char(lx) ==
  IF lx.char_index < Len(lx.source)
  THEN Let(lx.source[lx.char_index + 1], LAMBDA ch: [lx EXCEPT !.char_index = @ + 1,
                     !.offset = @ + len_utf8(ch),
                     !.line = IF ch = NL THEN @ + 1 ELSE @,
                     !.column = IF ch = NL THEN 1 ELSE @ + 1])
  ELSE lx

current_position(lx) == Position(lx.line, lx.column, lx.offset)

\* source_str.get(start..end).unwrap_or("")
source_get(src, from, to) ==
  IF from <= to /\ to <= Len(src) THEN SubSeq(src, from + 1, to) ELSE <<>>

\* push_token counting a comment as content of its line
push_token_comment_is_content(lx, kind, start) ==
  LET is_content == kind.tag \notin
        {"RawWhitespace", "Blank", "Indentation", "Newline", "Eof"} IN
      Let(current_position(lx), LAMBDA end:
      LET raw == source_get(lx.source, start.offset, end.offset) IN [lx EXCEPT !.tokens = Append(@, LexToken(kind, Span_join(start, end), raw)),
                !.line_has_content = IF is_content THEN TRUE ELSE @])

push_token(lx, kind, start) ==
  LET is_content == kind.tag \notin
        {"RawWhitespace", "Comment", "Blank", "Indentation", "Newline", "Eof"} IN
      Let(current_position(lx), LAMBDA end:
      LET raw == source_get(lx.source, start.offset, end.offset) IN [lx EXCEPT !.tokens = Append(@, LexToken(kind, Span_join(start, end), raw)),
                !.line_has_content = IF is_content THEN TRUE ELSE @])

Lexer_error(lx, message) ==
  ParseError(message, Span_join(current_position(lx), current_position(lx)))

\* the `while let Some(ch) = peek_char() { if ch in set { advance } else { break } }` loops
RECURSIVE advance_while(_, _)
advance_while(lx, set) ==
  IF peek_char(lx) # NoChar /\ peek_char(lx) \in set
  THEN advance_while(advance_char(lx), set)
  ELSE lx

RECURSIVE advance_to_newline(_)
advance_to_newline(lx) ==
  IF peek_char(lx) # NoChar /\ peek_char(lx) # NL
  THEN advance_to_newline(advance_char(lx))
  ELSE lx

RECURSIVE lex_indent_loop(_, _)
lex_indent_loop(lx, width) ==
  IF peek_char(lx) = " " THEN lex_indent_loop(advance_char(lx), width + 1)
  ELSE IF peek_char(lx) = TAB THEN lex_indent_loop(advance_char(lx), width + 4)
  ELSE [lx |-> lx, width |-> width]

\* lex_indent taking the indent width from every indented line
lex_indent_last_wins(lx) ==
  LET start == current_position(lx) IN
      Let(lex_indent_loop(lx, 0), LAMBDA r:
      LET lx1 == IF r.width > 0
             THEN [r.lx EXCEPT !.indent_width = SomeUsize(r.width)]
             ELSE r.lx IN push_token(lx1, KIndentation(r.width), start))

lex_indent(lx) ==
  LET start == current_position(lx) IN
      Let(lex_indent_loop(lx, 0), LAMBDA r:
      LET lx1 == IF ~r.lx.indent_width.some /\ r.width > 0
             THEN [r.lx EXCEPT !.indent_width = SomeUsize(r.width)]
             ELSE r.lx IN push_token(lx1, KIndentation(r.width), start))

lex_whitespace(lx) ==
  LET start == current_position(lx) IN
      Let(advance_while(lx, Blanks), LAMBDA lx1:
      Let(source_get(lx.source, lx.char_index, lx1.char_index), LAMBDA raw: IF raw # <<>> THEN push_token(lx1, KRawWhitespace(raw), start) ELSE lx1))

RECURSIVE trim_start_matches(_, _)
trim_start_matches(s, ch) ==
  IF s # <<>> /\ Head(s) = ch THEN trim_start_matches(Tail(s), ch) ELSE s

lex_comment(lx) ==
  LET start == current_position(lx) IN
      Let(advance_to_newline(lx), LAMBDA lx1:
      LET raw == source_get(lx.source, lx.char_index, lx1.char_index) IN push_token(lx1, KComment(trim_start_matches(raw, HASH)), start))

lex_number(lx) ==
  LET start == current_position(lx) IN
      Let(advance_while(lx, NumberPart), LAMBDA lx1:
      LET raw == source_get(lx.source, lx.char_index, lx1.char_index) IN push_token(lx1, KNumber(raw), start))

\* body of lex_string's loop; st carries raw, value and the two escape flags
RECURSIVE lex_string_loop(_, _, _, _)
lex_string_loop(lx, start, quote, st) ==
  Let(peek_char(lx), LAMBDA ch:
  IF ch = NoChar THEN Err(Lexer_error(lx, "unterminated string"))
  ELSE IF st.escaped
  THEN lex_string_loop(advance_char(lx), start, quote,
         [st EXCEPT !.value = Append(@, ch), !.raw = Append(@, ch), !.escaped = FALSE])
  ELSE IF ch = BACKSLASH
  THEN lex_string_loop(advance_char(lx), start, quote,
         [st EXCEPT !.escaped = TRUE, !.escaped_any = TRUE, !.raw = Append(@, ch)])
  ELSE IF ch = quote
  THEN [ok |-> TRUE,
        lx |-> push_token(advance_char(lx),
                 KString(Append(st.raw, ch), st.value,
                         IF quote = DQUOTE THEN "Double" ELSE "Single",
                         st.escaped_any),
                 start)]
  ELSE lex_string_loop(advance_char(lx), start, quote,
         [st EXCEPT !.value = Append(@, ch), !.raw = Append(@, ch)]))

lex_string(lx) ==
  LET start == current_position(lx) IN
      Let(peek_char(lx), LAMBDA quote: lex_string_loop(advance_char(lx), start, quote,
       [raw |-> <<quote>>, value |-> <<>>, escaped |-> FALSE, escaped_any |-> FALSE]))

KeywordOf(raw) ==
  CASE raw = <<"i", "f">> -> "If"
    [] raw = <<"e", "l", "i", "f">> -> "Elif"
    [] raw = <<"e", "l", "s", "e">> -> "Else"
    [] raw = <<"w", "h", "i", "l", "e">> -> "While"
    [] raw = <<"f", "o", "r">> -> "For"
    [] raw = <<"i", "n">> -> "In"
    [] raw = <<"i", "s">> -> "Is"
    [] raw = <<"l", "a", "m", "b", "d", "a">> -> "Lambda"
    [] raw = <<"d", "e", "f">> -> "Def"
    [] raw = <<"m", "a", "t", "c", "h">> -> "Match"
    [] raw = <<"c", "a", "s", "e">> -> "Case"
    [] raw = <<"p", "a", "s", "s">> -> "Pass"
    [] raw = <<"a", "n", "d">> -> "And"
    [] raw = <<"o", "r">> -> "Or"
    [] raw = <<"n", "o", "t">> -> "Not"
    [] raw = <<"T", "r", "u", "e">> -> "True"
    [] raw = <<"F", "a", "l", "s", "e">> -> "False"
    [] raw = <<"N", "o", "n", "e">> -> "None"
    [] OTHER -> ""

lex_identifier(lx) ==
  LET start == current_position(lx) IN
      Let(advance_while(lx, IdentPart), LAMBDA lx1:
      Let(source_get(lx.source, lx.char_index, lx1.char_index), LAMBDA raw:
      Let(KeywordOf(raw), LAMBDA kw: push_token(lx1, IF kw # "" THEN KKeyword(kw) ELSE KIdentifier(raw), start))))

saturating_sub(a, b) == IF a >= b THEN a - b ELSE 0

\* arms of the shape: start = pos; advance; push_token(kind, start)
lex_single(lx, kind) ==
  push_token(advance_char(lx), kind, current_position(lx))

lex_open(lx, tag) ==
  LET lx1 == advance_char(lx) IN push_token([lx1 EXCEPT !.paren_depth = @ + 1], KPunct(tag), current_position(lx))

lex_close(lx, tag) ==
  LET lx1 == advance_char(lx) IN push_token([lx1 EXCEPT !.paren_depth = saturating_sub(@, 1)], KPunct(tag),
                current_position(lx))

\* arms of the shape: advance; if consume_char('=') { two-char op } else { one-char op }
lex_maybe_eq(lx, two, one) ==
  Let(current_position(lx), LAMBDA start:
      Let(advance_char(lx), LAMBDA lx1: IF peek_char(lx1) = "="
     THEN push_token(advance_char(lx1), KOperator(two), start)
     ELSE push_token(lx1, KOperator(one), start)))

\* the newline arm ending the line whatever the bracket depth
lex_newline_ignoring_depth(lx) ==
  Let(current_position(lx), LAMBDA start:
      Let(advance_char(lx), LAMBDA lx1:
      LET lx2 == IF ~lx1.line_has_content
             THEN [lx1 EXCEPT !.tokens =
                     Append(@, LexToken(KBlank("Source"), Span_join(start, start), <<>>))]
             ELSE lx1 IN [push_token(lx2, KNewline, start) EXCEPT !.at_line_start = TRUE]))

lex_newline(lx) ==
  Let(current_position(lx), LAMBDA start:
      Let(advance_char(lx), LAMBDA lx1: IF lx1.paren_depth > 0
     THEN push_token(lx1, KRawWhitespace(<<NL>>), start)
     ELSE LET lx2 == IF ~lx1.line_has_content
                     THEN [lx1 EXCEPT !.tokens =
                             Append(@, LexToken(KBlank("Source"), Span_join(start, start), <<>>))]
                     ELSE lx1 IN [push_token(lx2, KNewline, start) EXCEPT !.at_line_start = TRUE]))

\* one iteration of the `match current` in Lexer::lex
\* the parts of an f-string token: literal text, and the text of an expression slot
FStringLiteral(text) == [part |-> "Literal", text |-> text]
FStringExprText(text) == [part |-> "ExprText", text |-> text]

\* an `f` directly followed by a quote opens an f-string
at_fstring(lx) ==
  /\ peek_char(lx) = "f"
  /\ lx.char_index + 1 < Len(lx.source)
  /\ lx.source[lx.char_index + 2] \in {DQUOTE, SQUOTE}

\* the scan of an f-string up to its closing quote; st carries the parts so far,
\* the literal or expression text being gathered and the depth of open braces
RECURSIVE lex_fstring_loop(_, _, _, _)
lex_fstring_loop(lx, start, quote, st) ==
  Let(peek_char(lx), LAMBDA ch:
      Let(IF st.text = <<>> THEN st.parts ELSE Append(st.parts, FStringLiteral(st.text)), LAMBDA flushed: IF ch = NoChar THEN Err(Lexer_error(lx, "unterminated string"))
     ELSE IF st.depth = 0
     THEN IF ch = quote
          THEN [ok |-> TRUE,
                lx |-> push_token(advance_char(lx),
                         KFString(flushed, IF quote = DQUOTE THEN "Double" ELSE "Single"),
                         start)]
          ELSE IF ch = "{"
          THEN lex_fstring_loop(advance_char(lx), start, quote,
                 [parts |-> flushed, text |-> <<>>, depth |-> 1])
          ELSE lex_fstring_loop(advance_char(lx), start, quote,
                 [st EXCEPT !.text = Append(@, ch)])
     ELSE IF ch = "}" /\ st.depth = 1
     THEN lex_fstring_loop(advance_char(lx), start, quote,
            [parts |-> Append(st.parts, FStringExprText(st.text)), text |-> <<>>,
             depth |-> 0])
     ELSE lex_fstring_loop(advance_char(lx), start, quote,
            [st EXCEPT !.text = Append(@, ch),
                       !.depth = IF ch = "{" THEN @ + 1 ELSE IF ch = "}" THEN @ - 1 ELSE @])))

\* an f-string is lexed into a single token whose parts alternate literal text and
\* expression text (the text between matching braces); the quote style is kept
lex_fstring(lx) ==
  LET start == current_position(lx) IN
      Let(advance_char(lx), LAMBDA lx1:
      LET quote == peek_char(lx1) IN lex_fstring_loop(advance_char(lx1), start, quote,
       [parts |-> <<>>, text |-> <<>>, depth |-> 0]))

lex_token(lx) ==
  Let(peek_char(lx), LAMBDA current:
      LET Ok(l) == [ok |-> TRUE, lx |-> l] IN CASE current = NL -> Ok(lex_newline(lx))
       [] current = HASH -> Ok(lex_comment(lx))
       [] current \in Blanks -> Ok(lex_whitespace(lx))
       [] current \in Digits -> Ok(lex_number(lx))
       [] current \in {DQUOTE, SQUOTE} -> lex_string(lx)
       [] current \in IdentStart ->
            IF at_fstring(lx) THEN lex_fstring(lx) ELSE Ok(lex_identifier(lx))
       [] current = "(" -> Ok(lex_open(lx, "LParen"))
       [] current = ")" -> Ok(lex_close(lx, "RParen"))
       [] current = "[" -> Ok(lex_open(lx, "LBracket"))
       [] current = "]" -> Ok(lex_close(lx, "RBracket"))
       [] current = "{" -> Ok(lex_open(lx, "LBrace"))
       [] current = "}" -> Ok(lex_close(lx, "RBrace"))
       [] current = "." -> Ok(lex_single(lx, KPunct("Dot")))
       [] current = ":" -> Ok(lex_single(lx, KPunct("Colon")))
       [] current = "," -> Ok(lex_single(lx, KPunct("Comma")))
       [] current = "=" -> Ok(lex_maybe_eq(lx, "Eq", "Assign"))
       [] current = "!" ->
            Let(advance_char(lx), LAMBDA lx1: IF peek_char(lx1) = "="
               THEN Ok(push_token(advance_char(lx1), KOperator("NotEq"), current_position(lx)))
               ELSE Err(Lexer_error(lx1, "unexpected character '!'")))
       [] current = "<" -> Ok(lex_maybe_eq(lx, "LtEq", "Lt"))
       [] current = ">" -> Ok(lex_maybe_eq(lx, "GtEq", "Gt"))
       [] current = "+" -> Ok(lex_single(lx, KOperator("Plus")))
       [] current = "-" -> Ok(lex_single(lx, KOperator("Minus")))
       [] current = "*" -> Ok(lex_single(lx, KOperator("Star")))
       [] current = "/" -> Ok(lex_single(lx, KOperator("Slash")))
       [] current = "%" -> Ok(lex_single(lx, KOperator("Percent")))
       [] OTHER -> Err(Lexer_error(lx, "unexpected character '" \o current \o "'")))

\* one round of the `while let Some(current) = self.peek_char()` loop of
\* Lexer::lex; r.more tells whether the loop is still running
lex_round(r) ==
  IF ~r.more THEN r
  ELSE IF peek_char(r.lx) = NoChar THEN [r EXCEPT !.more = FALSE]
  ELSE Let(IF r.lx.at_line_start /\ r.lx.paren_depth = 0
                  THEN [lex_indent(r.lx) EXCEPT !.at_line_start = FALSE,
                                                !.line_has_content = FALSE]
                  ELSE r.lx, LAMBDA lx1: IF peek_char(lx1) = NoChar THEN [ok |-> TRUE, more |-> FALSE, lx |-> lx1]
          ELSE Let(lex_token(lx1), LAMBDA t: IF t.ok THEN [ok |-> TRUE, more |-> TRUE, lx |-> t.lx]
                  ELSE [ok |-> FALSE, more |-> FALSE, error |-> t.error]))

\* n rounds of the loop; the rounds are halved so that the evaluation stays shallow
RECURSIVE lex_rounds(_, _)
lex_rounds(r, n) ==
  IF n <= 1 THEN lex_round(r)
  ELSE Let(lex_rounds(r, n \div 2), LAMBDA first: IF first.more THEN lex_rounds(first, n - n \div 2) ELSE first)

\* every round that does not leave the loop consumes a character
lex_loop(lx0) ==
  Let(lex_rounds([ok |-> TRUE, more |-> TRUE, lx |-> lx0], Len(lx0.source) + 1), LAMBDA r: IF r.ok THEN [ok |-> TRUE, lx |-> r.lx] ELSE Err(r.error))

DefaultIndentWidth == 4

\* Lexer::lex: Result<LexedSource, ParseError>
\* the end of Lexer::lex, after its loop: the Eof token and the LexedSource
LexedSource(lx0) ==
  Let(push_token(lx0, KEof, current_position(lx0)), LAMBDA lx: [ok |-> TRUE, tokens |-> lx.tokens,
      indent_width |-> IF lx.indent_width.some THEN lx.indent_width.val
                       ELSE DefaultIndentWidth])

lex(src) ==
  Let(lex_loop(Lexer_new(src)), LAMBDA r: IF ~r.ok THEN r ELSE LexedSource(r.lx))

(* ------------------------------------------------------------------ *)
(* Block-structure insertion                                           *)
(* ------------------------------------------------------------------ *)
NoPending == [some |-> FALSE]
SomePending(level, start, end, raw) ==
  [some |-> TRUE, level |-> level, start |-> start, end |-> end, raw |-> raw]

Last(s) == s[Len(s)]
Front(s) == SubSeq(s, 1, Len(s) - 1)

PendingWhitespace(p) == LexToken(KRawWhitespace(<<>>), Span_join(p.start, p.end), p.raw)

\* the dedent branch emitting one Dedent and popping nothing
pop_dedents_keeping_stack(st, level, span) ==
  [st EXCEPT !.output = Append(@, LexToken(KDedent(level), span, <<>>))]

\* the `while let Some(last) = indent_stack.last()` loop of the dedent branch
RECURSIVE pop_dedents(_, _, _)
pop_dedents(st, level, span) ==
  IF st.indent_stack # <<>> /\ ~(level >= Last(st.indent_stack))
  THEN pop_dedents([st EXCEPT !.indent_stack = Front(@),
                              !.output = Append(@, LexToken(KDedent(level), span, <<>>))],
                   level, span)
  ELSE st

\* the loop at Eof popping the stack without emitting anything
pop_to_base_silently(st, span) ==
  [st EXCEPT !.indent_stack = <<Head(@)>>]

\* the `while indent_stack.len() > 1` loop at Eof
RECURSIVE pop_to_base(_, _)
pop_to_base(st, span) ==
  IF Len(st.indent_stack) > 1
  THEN pop_to_base([st EXCEPT !.indent_stack = Front(@),
                              !.output = Append(@, LexToken(KDedent(0), span, <<>>))],
                   span)
  ELSE st

\* one iteration of the `for token in tokens` loop
indent_step(st, token) ==
  LET p == st.pending_indent IN
      Let([st EXCEPT !.pending_indent = NoPending], LAMBDA taken:
      Let(IF p.some THEN [taken EXCEPT !.output = Append(@, PendingWhitespace(p))]
                 ELSE taken, LAMBDA flushed: CASE token.kind.tag = "Indentation" ->
            [st EXCEPT !.pending_indent =
               SomePending(token.kind.width, token.span.start, token.span.end, token.raw)]
       [] token.kind.tag = "Newline" ->
            [flushed EXCEPT !.output = Append(@, token)]
       [] token.kind.tag = "Eof" ->
            LET popped == pop_to_base(flushed, token.span) IN [popped EXCEPT !.output = Append(@, token)]
       [] OTHER ->
            IF ~p.some THEN [st EXCEPT !.output = Append(@, token)]
            ELSE IF ~is_trivia(token.kind) /\ token.kind.tag # "Newline"
            THEN Let(IF st.indent_stack # <<>> THEN Last(st.indent_stack) ELSE 0, LAMBDA current:
                     Let(Span_join(p.start, p.end), LAMBDA span:
                     LET structured ==
                       IF p.level > current /\ p.level > 0
                       THEN [taken EXCEPT !.indent_stack = Append(@, p.level),
                                          !.output = Append(@, LexToken(KIndent(p.level), span, <<>>))]
                       ELSE IF p.level < current
                       THEN pop_dedents(taken, p.level, span)
                       ELSE taken IN [structured EXCEPT !.output = Append(Append(@, PendingWhitespace(p)), token)]))
            ELSE [flushed EXCEPT !.output = Append(@, token)]))

\* the loop over tokens[lo..hi], halved so that the evaluation stays shallow
RECURSIVE indent_fold(_, _, _, _)
indent_fold(st, tokens, lo, hi) ==
  IF lo > hi THEN st
  ELSE IF lo = hi THEN indent_step(st, tokens[lo])
  ELSE Let((lo + hi) \div 2, LAMBDA mid:
           Let(indent_fold(st, tokens, lo, mid), LAMBDA left: After(left, indent_fold(left, tokens, mid + 1, hi))))

IndentInit == [output |-> <<>>, indent_stack |-> <<0>>, pending_indent |-> NoPending]

insert_indent_tokens(tokens) == indent_fold(IndentInit, tokens, 1, Len(tokens)).output

(* ------------------------------------------------------------------ *)
(* Trivia attachment                                                   *)
(* ------------------------------------------------------------------ *)
TKComment(text) == [tag |-> "Comment", text |-> text]
TKRawWhitespace(text) == [tag |-> "RawWhitespace", text |-> text]
TKBlank(src) == [tag |-> "Blank", source |-> src]

trivia_from_token(token) ==
  [kind |-> CASE token.kind.tag = "Comment" -> TKComment(token.kind.text)
              [] token.kind.tag = "RawWhitespace" -> TKRawWhitespace(token.kind.text)
              [] token.kind.tag = "Blank" -> TKBlank(token.kind.source)
              [] OTHER -> TKRawWhitespace(token.raw),
   span |-> token.span]

Token(kind, span, raw, leading, trailing) ==
  [kind |-> kind, span |-> span, raw |-> raw,
   leading_trivia |-> leading, trailing_trivia |-> trailing]

\* the iteration keeping every trivium for the token that comes next
attach_step_all_leading(st, token) ==
  IF is_trivia(token.kind)
  THEN [st EXCEPT !.pending_leading = Append(@, trivia_from_token(token))]
  ELSE IF token.kind.tag = "Newline"
  THEN [st EXCEPT !.tokens = Append(@, Token(token.kind, token.span, token.raw, <<>>, <<>>)),
                  !.last_sig_index = SomeUsize(Len(st.tokens)),
                  !.line_has_token = FALSE]
  ELSE [st EXCEPT !.tokens = Append(@, Token(token.kind, token.span, token.raw,
                                             st.pending_leading, <<>>)),
                  !.pending_leading = <<>>,
                  !.last_sig_index = SomeUsize(Len(st.tokens)),
                  !.line_has_token = token.kind.tag \notin {"Indent", "Dedent", "Newline"}]

\* one iteration of the `for token in raw_tokens` loop
attach_step(st, token) ==
  IF is_trivia(token.kind)
  THEN Let(trivia_from_token(token), LAMBDA trivia: IF st.line_has_token /\ st.last_sig_index.some
          THEN [st EXCEPT !.tokens[st.last_sig_index.val + 1].trailing_trivia = Append(@, trivia)]
          ELSE [st EXCEPT !.pending_leading = Append(@, trivia)])
  ELSE IF token.kind.tag = "Newline"
  THEN [st EXCEPT !.tokens = Append(@, Token(token.kind, token.span, token.raw, <<>>, <<>>)),
                  !.last_sig_index = SomeUsize(Len(st.tokens)),
                  !.line_has_token = FALSE]
  ELSE [st EXCEPT !.tokens = Append(@, Token(token.kind, token.span, token.raw,
                                             st.pending_leading, <<>>)),
                  !.pending_leading = <<>>,
                  !.last_sig_index = SomeUsize(Len(st.tokens)),
                  !.line_has_token = token.kind.tag \notin {"Indent", "Dedent", "Newline"}]

\* the loop over raw_tokens[lo..hi], halved so that the evaluation stays shallow
RECURSIVE attach_fold(_, _, _, _)
attach_fold(st, raw_tokens, lo, hi) ==
  IF lo > hi THEN st
  ELSE IF lo = hi THEN attach_step(st, raw_tokens[lo])
  ELSE Let((lo + hi) \div 2, LAMBDA mid:
           Let(attach_fold(st, raw_tokens, lo, mid), LAMBDA left: After(left, attach_fold(left, raw_tokens, mid + 1, hi))))

AttachInit ==
  [tokens |-> <<>>, pending_leading |-> <<>>, line_has_token |-> FALSE,
   last_sig_index |-> NoneUsize]

attach_trivia(raw_tokens) ==
  Let(attach_fold(AttachInit, raw_tokens, 1, Len(raw_tokens)), LAMBDA st:
      Let(Len(st.tokens), LAMBDA n: IF st.pending_leading # <<>> /\ n > 0
     THEN IF st.tokens[n].kind.tag = "Eof"
          THEN [st.tokens EXCEPT ![n].leading_trivia = @ \o st.pending_leading]
          ELSE [st.tokens EXCEPT ![n].trailing_trivia = @ \o st.pending_leading]
     ELSE st.tokens))

(* ------------------------------------------------------------------ *)
(* Parser: cursor, expectations, node metadata                         *)
(* ------------------------------------------------------------------ *)
\* ParserConfig { features: FeatureSet { match_stmt } }
ParserConfig(match_stmt) == [features |-> [match_stmt |-> match_stmt]]
\* FeatureSet::from_version
FeatureSet_from_version(version) == [match_stmt |-> (version = "Py310")]
ParserConfig_default == [features |-> FeatureSet_from_version("Py310")]

Parser_new(tokens, config, indent_width) ==
  [tokens |-> tokens, index |-> 0, next_id |-> 1, config |-> config,
   indent_width |-> indent_width,
   last_span |-> IF tokens # <<>> THEN Last(tokens).span ELSE Span_default,
   panicked |-> FALSE, past_eof |-> FALSE]

Ok(ps, val) == [ok |-> TRUE, ps |-> ps, val |-> val]

\* Err(error) returned by the parser; what its cursor did so far is kept
ParserErr(ps, error) ==
  [ok |-> FALSE, error |-> error, panicked |-> ps.panicked, past_eof |-> ps.past_eof]

peek_kind(ps) ==
  IF ps.index < Len(ps.tokens) THEN ps.tokens[ps.index + 1].kind ELSE KEof

peek_kind_offset(ps, offset) ==
  IF ps.index + offset < Len(ps.tokens) THEN ps.tokens[ps.index + offset + 1].kind ELSE KEof

check_tag(ps, tag) == TokenTagOf(peek_kind(ps)) = tag

\* `self.tokens[self.index]` panics when the index is out of bounds
\* `self.tokens[self.index]` panics when the index is out of bounds; panicked
\* records that it did, past_eof that the cursor was moved beyond the last token
advance(ps) ==
  IF ps.index < Len(ps.tokens)
  THEN [ps EXCEPT !.index = @ + 1, !.last_span = ps.tokens[ps.index + 1].span,
                  !.past_eof = @ \/ ps.index + 1 >= Len(ps.tokens)]
  ELSE [ps EXCEPT !.panicked = TRUE]

\* Parser::error reporting the last consumed token whatever the cursor
Parser_error_at_last_span(ps, message) == ParseError(message, ps.last_span)

Parser_error(ps, message) ==
  ParseError(message,
             IF ps.index < Len(ps.tokens) THEN ps.tokens[ps.index + 1].span ELSE ps.last_span)

node_meta(ps, start, end) ==
  Let(Len(ps.tokens), LAMBDA n:
      LET has_start == start < n IN
      LET has_end == end < n IN
      Let(IF has_start /\ has_end
              THEN Span_join(ps.tokens[start + 1].span.start, ps.tokens[end + 1].span.end)
              ELSE IF has_start
              THEN Span_join(ps.tokens[start + 1].span.start, ps.tokens[start + 1].span.end)
              ELSE Span_default, LAMBDA span: [ps |-> [ps EXCEPT !.next_id = @ + 1],
      meta |-> [id |-> ps.next_id, span |-> span,
                token_range |-> [start |-> start, end |-> end],
                leading_trivia |-> IF has_start THEN ps.tokens[start + 1].leading_trivia ELSE <<>>,
                trailing_trivia |-> IF has_end THEN ps.tokens[end + 1].trailing_trivia ELSE <<>>]]))

\* index.saturating_sub(1), the end of almost every node
prev_index(ps) == saturating_sub(ps.index, 1)

\* finish a node: allocate its meta over [start, index - 1] and wrap the payload
Finish(ps, start, node) ==
  Let(node_meta(ps, start, prev_index(ps)), LAMBDA m: Ok(m.ps, [node EXCEPT !.meta = m.meta]))

NodeMeta_default ==
  [id |-> 0, span |-> Span_default, token_range |-> [start |-> 0, end |-> 0],
   leading_trivia |-> <<>>, trailing_trivia |-> <<>>]

expect_tag(ps, tag) ==
  IF check_tag(ps, tag) THEN Ok(advance(ps), tag)
  ELSE ParserErr(ps, Parser_error(ps, "expected " \o tag))

match_tag(ps, tag) ==
  IF check_tag(ps, tag) THEN [hit |-> TRUE, ps |-> advance(ps)] ELSE [hit |-> FALSE, ps |-> ps]

is_keyword(kind, kw) == kind.tag = "Keyword" /\ kind.kw = kw
is_operator(kind, op) == kind.tag = "Operator" /\ kind.op = op

expect_keyword(ps, kw) ==
  IF is_keyword(peek_kind(ps), kw) THEN Ok(advance(ps), kw)
  ELSE ParserErr(ps, Parser_error(ps, "expected keyword"))

match_keyword(ps, kw) ==
  IF is_keyword(peek_kind(ps), kw) THEN [hit |-> TRUE, ps |-> advance(ps)]
  ELSE [hit |-> FALSE, ps |-> ps]

match_operator(ps, op) ==
  IF is_operator(peek_kind(ps), op) THEN [hit |-> TRUE, ps |-> advance(ps)]
  ELSE [hit |-> FALSE, ps |-> ps]

\* expect_line_end consuming the end of input the way it consumes a newline
expect_line_end_consuming_eof(ps) ==
  IF check_tag(ps, "Newline") \/ check_tag(ps, "Eof") THEN Ok(advance(ps), "Newline")
  ELSE IF check_tag(ps, "Dedent") THEN Ok(ps, "")
  ELSE ParserErr(ps, Parser_error(ps, "expected line end"))

expect_line_end(ps) ==
  IF check_tag(ps, "Newline") THEN Ok(advance(ps), "Newline")
  ELSE IF check_tag(ps, "Dedent") \/ check_tag(ps, "Eof") THEN Ok(ps, "")
  ELSE ParserErr(ps, Parser_error(ps, "expected line end"))

\* expect_indent counting levels from zero
expect_indent_zero_based(ps) ==
  Let(peek_kind(ps), LAMBDA kind:
  IF kind.tag = "Indent"
  THEN IF ps.indent_width = 0 THEN Ok(advance(ps), kind.level)
       ELSE IF kind.level % ps.indent_width # 0
       THEN ParserErr(advance(ps), Parser_error(advance(ps), "invalid indent width"))
       ELSE Ok(advance(ps), kind.level \div ps.indent_width - 1)
  ELSE ParserErr(ps, Parser_error(ps, "expected indent")))

expect_indent(ps) ==
  Let(peek_kind(ps), LAMBDA kind:
  IF kind.tag = "Indent"
  THEN IF ps.indent_width = 0 THEN Ok(advance(ps), kind.level)
       ELSE IF kind.level % ps.indent_width # 0
       THEN ParserErr(advance(ps), Parser_error(advance(ps), "invalid indent width"))
       ELSE Ok(advance(ps), kind.level \div ps.indent_width)
  ELSE ParserErr(ps, Parser_error(ps, "expected indent")))

expect_identifier(ps) ==
  Let(peek_kind(ps), LAMBDA kind:
  IF kind.tag = "Identifier" THEN Ok(advance(ps), kind.name)
  ELSE ParserErr(ps, Parser_error(ps, "expected identifier")))

\* precedence levels of the two operators whose BinaryOp::precedence arms are
\* not part of the enum as declared: level 6 (with * / %) and level 7
FloorDivPrecedence == 6
PowerPrecedence == 7

\* BinaryOp::precedence
precedence(op) ==
  CASE op \in {"Add", "Sub"} -> 5
    [] op \in {"Mul", "Div", "Mod"} -> 6
    [] op = "FloorDiv" -> FloorDivPrecedence
    [] op = "Power" -> PowerPrecedence

BinaryOpInfo(op, assoc) == [some |-> TRUE, op |-> op, precedence |-> precedence(op), assoc |-> assoc]

\* the arms for Operator::FloorDiv and Operator::Power are never taken on lexed
\* input: the lexer emits `*` and `/` as single-character tokens only
peek_binary_op_info(ps) ==
  Let(peek_kind(ps), LAMBDA kind:
  IF kind.tag # "Operator" THEN [some |-> FALSE]
  ELSE CASE kind.op = "Plus" -> BinaryOpInfo("Add", "Left")
         [] kind.op = "Minus" -> BinaryOpInfo("Sub", "Left")
         [] kind.op = "Star" -> BinaryOpInfo("Mul", "Left")
         [] kind.op = "Slash" -> BinaryOpInfo("Div", "Left")
         [] kind.op = "Percent" -> BinaryOpInfo("Mod", "Left")
         [] kind.op = "FloorDiv" -> BinaryOpInfo("FloorDiv", "Left")
         [] kind.op = "Power" -> BinaryOpInfo("Power", "Right")
         [] OTHER -> [some |-> FALSE])

\* Option<CompareOp> together with the advanced cursor
take_compare_op(ps) ==
  Let(peek_kind(ps), LAMBDA kind:
      LET Take(op) == [some |-> TRUE, op |-> op, ps |-> advance(ps)] IN CASE is_operator(kind, "Eq") -> Take("Eq")
       [] is_operator(kind, "NotEq") -> Take("NotEq")
       [] is_operator(kind, "Lt") -> Take("Lt")
       [] is_operator(kind, "LtEq") -> Take("LtEq")
       [] is_operator(kind, "Gt") -> Take("Gt")
       [] is_operator(kind, "GtEq") -> Take("GtEq")
       [] is_keyword(kind, "In") -> Take("In")
       [] is_keyword(kind, "Is") ->
            Let(match_keyword(advance(ps), "Not"), LAMBDA m: [some |-> TRUE, op |-> IF m.hit THEN "IsNot" ELSE "Is", ps |-> m.ps])
       [] is_keyword(kind, "Not") ->
            IF is_keyword(peek_kind_offset(ps, 1), "In")
            THEN [some |-> TRUE, op |-> "NotIn", ps |-> advance(advance(ps))]
            ELSE [some |-> FALSE, ps |-> ps]
       [] OTHER -> [some |-> FALSE, ps |-> ps])

(* ------------------------------------------------------------------ *)
(* Parser: expressions                                                 *)
(* ------------------------------------------------------------------ *)
RECURSIVE parse_expression_with_generator(_, _, _)
RECURSIVE parse_lambda_with_if_expr(_, _)
RECURSIVE lambda_params_loop(_, _)
RECURSIVE parse_if_expr(_, _)
RECURSIVE parse_bool_or(_)
RECURSIVE bool_or_loop(_, _)
RECURSIVE parse_bool_and(_)
RECURSIVE bool_and_loop(_, _)
RECURSIVE parse_compare(_)
RECURSIVE compare_loop(_, _, _)
RECURSIVE parse_binary(_, _)
RECURSIVE binary_loop(_, _, _)
RECURSIVE parse_unary(_)
RECURSIVE parse_postfix(_)
RECURSIVE postfix_loop(_, _)
RECURSIVE call_args_loop(_, _, _)
RECURSIVE parse_primary(_)
RECURSIVE tuple_elements_loop(_, _)
RECURSIVE fstring_parts_loop(_, _, _)
RECURSIVE parse_comprehension_fors(_)
RECURSIVE comprehension_fors_loop(_, _)
RECURSIVE comprehension_ifs_loop(_, _)

parse_expression(ps) == Call("parse_expression_with_generator", ps, TRUE, TRUE)
parse_expression_no_generator(ps) == Call("parse_expression_with_generator", ps, FALSE, TRUE)
parse_expression_no_if_expr(ps) == Call("parse_expression_with_generator", ps, FALSE, FALSE)
parse_assignment_target(ps) == parse_postfix(ps)

parse_expression_with_generator(ps, allow_generator, allow_if_expr) ==
  LET start == ps.index IN
      Let(parse_lambda_with_if_expr(ps, allow_if_expr), LAMBDA r: IF ~r.ok THEN r
     ELSE Let(IF allow_generator THEN match_keyword(r.ps, "For")
                   ELSE [hit |-> FALSE, ps |-> r.ps], LAMBDA m: IF m.hit
             THEN Let(parse_comprehension_fors(m.ps), LAMBDA f: IF ~f.ok THEN f
                     ELSE Finish(f.ps, start,
                            [kind |-> "Comprehension", variant |-> "Generator", meta |-> <<>>,
                             element |-> r.val, fors |-> f.val]))
             ELSE r))

\* the `loop { params.push(expect_identifier()?); ... }` of a lambda header
lambda_params_loop(ps, params) ==
  Let(expect_identifier(ps), LAMBDA r:
  IF ~r.ok THEN r
  ELSE Let(match_tag(r.ps, "Comma"), LAMBDA m:
           Let(Append(params, r.val), LAMBDA acc: IF m.hit
          THEN IF check_tag(m.ps, "Colon") THEN Ok(m.ps, acc)
               ELSE lambda_params_loop(m.ps, acc)
          ELSE Ok(m.ps, acc))))

parse_lambda_with_if_expr(ps, allow_if_expr) ==
  Let(match_keyword(ps, "Lambda"), LAMBDA m:
  IF m.hit
  THEN LET start == prev_index(m.ps) IN
           Let(IF ~check_tag(m.ps, "Colon") THEN lambda_params_loop(m.ps, <<>>)
                ELSE Ok(m.ps, <<>>), LAMBDA p: IF ~p.ok THEN p ELSE
          Let(expect_tag(p.ps, "Colon"), LAMBDA c: IF ~c.ok THEN c ELSE
          Let(Call("parse_expression_with_generator", c.ps, TRUE, TRUE), LAMBDA b: IF ~b.ok THEN b ELSE
          Finish(b.ps, start, [kind |-> "Lambda", meta |-> <<>>, params |-> p.val, body |-> b.val]))))
  ELSE parse_if_expr(ps, allow_if_expr))

parse_if_expr(ps, allow_if_expr) ==
  LET start == ps.index IN
      Let(parse_bool_or(ps), LAMBDA body: IF ~body.ok THEN body ELSE
     Let(IF allow_if_expr THEN match_keyword(body.ps, "If")
              ELSE [hit |-> FALSE, ps |-> body.ps], LAMBDA m: IF ~m.hit THEN body ELSE
        Let(parse_bool_or(m.ps), LAMBDA cond: IF ~cond.ok THEN cond ELSE
        Let(expect_keyword(cond.ps, "Else"), LAMBDA e: IF ~e.ok THEN e ELSE
        Let(parse_if_expr(e.ps, TRUE), LAMBDA else_body: IF ~else_body.ok THEN else_body ELSE
        Finish(else_body.ps, start,
          [kind |-> "IfExpr", meta |-> <<>>, body |-> body.val, condition |-> cond.val,
           else_body |-> else_body.val]))))))

bool_or_loop(ps, values) ==
  Let(match_keyword(ps, "Or"), LAMBDA m:
  IF ~m.hit THEN Ok(ps, values)
  ELSE Let(parse_bool_and(m.ps), LAMBDA r: IF ~r.ok THEN r ELSE bool_or_loop(r.ps, Append(values, r.val))))

parse_bool_or(ps) ==
  LET start == ps.index IN
      Let(parse_bool_and(ps), LAMBDA first: IF ~first.ok THEN first ELSE
     Let(bool_or_loop(first.ps, <<first.val>>), LAMBDA r: IF ~r.ok THEN r ELSE
     IF Len(r.val) = 1 THEN Ok(r.ps, r.val[1])
     ELSE Finish(r.ps, start, [kind |-> "BoolOp", meta |-> <<>>, op |-> "Or", values |-> r.val])))

bool_and_loop(ps, values) ==
  Let(match_keyword(ps, "And"), LAMBDA m:
  IF ~m.hit THEN Ok(ps, values)
  ELSE Let(parse_compare(m.ps), LAMBDA r: IF ~r.ok THEN r ELSE bool_and_loop(r.ps, Append(values, r.val))))

parse_bool_and(ps) ==
  LET start == ps.index IN
      Let(parse_compare(ps), LAMBDA first: IF ~first.ok THEN first ELSE
     Let(bool_and_loop(first.ps, <<first.val>>), LAMBDA r: IF ~r.ok THEN r ELSE
     IF Len(r.val) = 1 THEN Ok(r.ps, r.val[1])
     ELSE Finish(r.ps, start, [kind |-> "BoolOp", meta |-> <<>>, op |-> "And", values |-> r.val])))

\* val carries the pair (ops, comparators)
compare_loop(ps, ops, comparators) ==
  Let(take_compare_op(ps), LAMBDA t:
  IF ~t.some THEN Ok(ps, [ops |-> ops, comparators |-> comparators])
  ELSE Let(parse_binary(t.ps, 0), LAMBDA r: IF ~r.ok THEN r
          ELSE compare_loop(r.ps, Append(ops, t.op), Append(comparators, r.val))))

\* parse_compare wrapping its operand whether or not an operator follows
parse_compare_always_wraps(ps) ==
  LET start == ps.index IN
      Let(parse_binary(ps, 0), LAMBDA left: IF ~left.ok THEN left ELSE
     Let(compare_loop(left.ps, <<>>, <<>>), LAMBDA r: IF ~r.ok THEN r ELSE
     Finish(r.ps, start,
       [kind |-> "Compare", meta |-> <<>>, left |-> left.val, ops |-> r.val.ops,
        comparators |-> r.val.comparators])))

parse_compare(ps) ==
  LET start == ps.index IN
      Let(parse_binary(ps, 0), LAMBDA left: IF ~left.ok THEN left ELSE
     Let(compare_loop(left.ps, <<>>, <<>>), LAMBDA r: IF ~r.ok THEN r ELSE
     IF r.val.ops = <<>> THEN Ok(r.ps, left.val)
     ELSE Finish(r.ps, start,
            [kind |-> "Compare", meta |-> <<>>, left |-> left.val, ops |-> r.val.ops,
             comparators |-> r.val.comparators])))

binary_loop(ps, left, min_prec) ==
  Let(peek_binary_op_info(ps), LAMBDA info:
  IF ~info.some THEN Ok(ps, left)
  ELSE IF info.precedence < min_prec THEN Ok(ps, left)
  ELSE LET op_meta_start == ps.index IN
           LET next_min == IF info.assoc = "Left" THEN info.precedence + 1 ELSE info.precedence IN
           Let(parse_binary(advance(ps), next_min), LAMBDA right: IF ~right.ok THEN right
          ELSE Let(node_meta(right.ps, op_meta_start, prev_index(right.ps)), LAMBDA m: binary_loop(m.ps,
                    [kind |-> "Binary", meta |-> m.meta, left |-> left, op |-> info.op,
                     right |-> right.val],
                    min_prec))))

parse_binary(ps, min_prec) ==
  Let(parse_unary(ps), LAMBDA left: IF ~left.ok THEN left ELSE binary_loop(left.ps, left.val, min_prec))

parse_unary(ps) ==
  Let(peek_kind(ps), LAMBDA kind:
      LET start == ps.index IN
      LET Prefix(op) ==
        Let(parse_unary(advance(ps)), LAMBDA r: IF ~r.ok THEN r
           ELSE Finish(r.ps, start, [kind |-> "Unary", meta |-> <<>>, op |-> op, expr |-> r.val])) IN IF is_operator(kind, "Minus") THEN Prefix("Neg")
     ELSE IF is_keyword(kind, "Not") THEN Prefix("Not")
     ELSE parse_postfix(ps))

\* the argument loop of a call; val carries the pair (args, kwargs)
call_args_loop(ps, args, kwargs) ==
  Let(parse_expression(ps), LAMBDA a:
  IF ~a.ok THEN a ELSE
  Let(IF a.val.kind = "Identifier" THEN match_operator(a.ps, "Assign")
            ELSE [hit |-> FALSE, ps |-> a.ps], LAMBDA eq:
      Let(IF eq.hit THEN parse_expression(eq.ps) ELSE Ok(eq.ps, <<>>), LAMBDA v: IF ~v.ok THEN v ELSE
     Let(IF eq.hit THEN args ELSE Append(args, a.val), LAMBDA args1:
         Let(IF eq.hit THEN Append(kwargs, [name |-> a.val.name, value |-> v.val])
                    ELSE kwargs, LAMBDA kwargs1:
         Let(match_tag(v.ps, "Comma"), LAMBDA m:
         Let(Ok(m.ps, [args |-> args1, kwargs |-> kwargs1]), LAMBDA done: IF m.hit
        THEN IF check_tag(m.ps, "RParen") THEN done ELSE call_args_loop(m.ps, args1, kwargs1)
        ELSE done)))))))

\* the subscript arm `[ ... ]` is not modelled: no modelled input contains `[`
postfix_loop(ps, expr) ==
  Let(match_tag(ps, "LParen"), LAMBDA lp:
  IF lp.hit
  THEN LET start == prev_index(lp.ps) IN
           Let(IF ~check_tag(lp.ps, "RParen") THEN call_args_loop(lp.ps, <<>>, <<>>)
                ELSE Ok(lp.ps, [args |-> <<>>, kwargs |-> <<>>]), LAMBDA a: IF ~a.ok THEN a ELSE
          Let(expect_tag(a.ps, "RParen"), LAMBDA c: IF ~c.ok THEN c ELSE
          Let(node_meta(c.ps, start, prev_index(c.ps)), LAMBDA m: postfix_loop(m.ps,
               [kind |-> "Call", meta |-> m.meta, callee |-> expr, args |-> a.val.args,
                kwargs |-> a.val.kwargs]))))
  ELSE Let(match_tag(ps, "Dot"), LAMBDA dot:
  IF dot.hit
  THEN LET start == prev_index(dot.ps) IN
           Let(expect_identifier(dot.ps), LAMBDA attr: IF ~attr.ok THEN attr ELSE
          Let(node_meta(attr.ps, start, prev_index(attr.ps)), LAMBDA m: postfix_loop(m.ps,
               [kind |-> "Attribute", meta |-> m.meta, value |-> expr, attr |-> attr.val])))
  ELSE Ok(ps, expr)))

parse_postfix(ps) ==
  Let(parse_primary(ps), LAMBDA r: IF ~r.ok THEN r ELSE postfix_loop(r.ps, r.val))

\* FStringPart::Literal and FStringPart::Expr
FStringPartLiteral(text) == [part |-> "Literal", text |-> text]
FStringPartExpr(e) == [part |-> "Expr", expr |-> e]

\* the expression text of one slot goes through a lexer and a parser of its own
parse_fstring_expr(ps, text) ==
  Let(lex(text), LAMBDA lexed:
  IF ~lexed.ok THEN ParserErr(ps, lexed.error) ELSE
  LET tokens == attach_trivia(insert_indent_tokens(lexed.tokens)) IN
      LET sub_parser == Parser_new(tokens, ps.config, ps.indent_width) IN parse_expression(sub_parser))

\* `for part in &fstring.parts`; the parser itself does not move
fstring_parts_loop(ps, token_parts, parts) ==
  IF token_parts = <<>> THEN Ok(ps, parts)
  ELSE IF Head(token_parts).part = "Literal"
  THEN fstring_parts_loop(ps, Tail(token_parts),
         Append(parts, FStringPartLiteral(Head(token_parts).text)))
  ELSE Let(parse_fstring_expr(ps, Head(token_parts).text), LAMBDA e:
       IF ~e.ok THEN e
       ELSE fstring_parts_loop(
              [ps EXCEPT !.panicked = @ \/ e.ps.panicked, !.past_eof = @ \/ e.ps.past_eof],
              Tail(token_parts), Append(parts, FStringPartExpr(e.val))))

\* elements after the first comma of a parenthesised tuple
tuple_elements_loop(ps, elements) ==
  Let(parse_expression_no_generator(ps), LAMBDA e:
  IF ~e.ok THEN e ELSE
  Let(match_tag(e.ps, "Comma"), LAMBDA m:
      Let(Append(elements, e.val), LAMBDA acc: IF m.hit
     THEN IF check_tag(m.ps, "RParen") THEN Ok(m.ps, acc) ELSE tuple_elements_loop(m.ps, acc)
     ELSE Ok(m.ps, acc))))

LiteralNumber(raw) == [kind |-> "Number", raw |-> raw]
LiteralString(k) ==
  [kind |-> "String", raw |-> k.raw, value |-> k.value, quote |-> k.quote, escaped |-> k.escaped]
LiteralBool(b) == [kind |-> "Bool", value |-> b]
LiteralNone == [kind |-> "None"]

\* the list, dict/set and f-string arms are not modelled: no modelled input
\* contains `[`, `{` or an f-string token
parse_primary(ps) ==
  LET start == ps.index IN
      Let(peek_kind(ps), LAMBDA kind:
      LET Lit(l) == Finish(advance(ps), start, [kind |-> "Literal", meta |-> <<>>, literal |-> l]) IN CASE kind.tag = "Identifier" ->
            Finish(advance(ps), start, [kind |-> "Identifier", meta |-> <<>>, name |-> kind.name])
       [] kind.tag = "Number" -> Lit(LiteralNumber(kind.raw))
       [] kind.tag = "String" -> Lit(LiteralString(kind))
       [] kind.tag = "FString" ->
            Let(fstring_parts_loop(advance(ps), kind.parts, <<>>), LAMBDA parts: IF ~parts.ok THEN parts ELSE
               Finish(parts.ps, start,
                 [kind |-> "FString", meta |-> <<>>, parts |-> parts.val,
                  quote |-> kind.quote]))
       [] is_keyword(kind, "True") -> Lit(LiteralBool(TRUE))
       [] is_keyword(kind, "False") -> Lit(LiteralBool(FALSE))
       [] is_keyword(kind, "None") -> Lit(LiteralNone)
       [] kind.tag = "LParen" ->
            Let(parse_expression(advance(ps)), LAMBDA e: IF ~e.ok THEN e ELSE
            Let(match_tag(e.ps, "Comma"), LAMBDA comma:
            IF comma.hit
            THEN Let(IF ~check_tag(comma.ps, "RParen")
                          THEN tuple_elements_loop(comma.ps, <<e.val>>)
                          ELSE Ok(comma.ps, <<e.val>>), LAMBDA t: IF ~t.ok THEN t ELSE
                    Let(expect_tag(t.ps, "RParen"), LAMBDA c: IF ~c.ok THEN c ELSE
                    Finish(c.ps, start, [kind |-> "Tuple", meta |-> <<>>, elements |-> t.val])))
            ELSE Let(expect_tag(e.ps, "RParen"), LAMBDA c: IF ~c.ok THEN c ELSE
                 Finish(c.ps, start, [kind |-> "Grouped", meta |-> <<>>, expr |-> e.val]))))
       [] OTHER -> ParserErr(ps, Parser_error(ps, "expected expression")))

comprehension_ifs_loop(ps, ifs) ==
  Let(match_keyword(ps, "If"), LAMBDA m:
  IF ~m.hit THEN Ok(ps, ifs)
  ELSE Let(parse_expression_no_generator(m.ps), LAMBDA r: IF ~r.ok THEN r ELSE comprehension_ifs_loop(r.ps, Append(ifs, r.val))))

comprehension_fors_loop(ps, fors) ==
  LET start == prev_index(ps) IN
      Let(parse_assignment_target(ps), LAMBDA target: IF ~target.ok THEN target ELSE
     Let(expect_keyword(target.ps, "In"), LAMBDA k: IF ~k.ok THEN k ELSE
     Let(parse_expression_no_if_expr(k.ps), LAMBDA iter: IF ~iter.ok THEN iter ELSE
     Let(comprehension_ifs_loop(iter.ps, <<>>), LAMBDA ifs: IF ~ifs.ok THEN ifs ELSE
     Let(node_meta(ifs.ps, start, prev_index(ifs.ps)), LAMBDA m:
         Let(Append(fors, [meta |-> m.meta, target |-> target.val, iter |-> iter.val,
                              ifs |-> ifs.val]), LAMBDA acc:
         Let(match_keyword(m.ps, "For"), LAMBDA again: IF again.hit THEN comprehension_fors_loop(again.ps, acc) ELSE Ok(again.ps, acc))))))))

parse_comprehension_fors(ps) == comprehension_fors_loop(ps, <<>>)

(* ------------------------------------------------------------------ *)
(* Parser: statements, blocks, program                                 *)
(* ------------------------------------------------------------------ *)
RECURSIVE parse_stmt(_)
RECURSIVE parse_block(_)
RECURSIVE block_blank_loop(_, _)
RECURSIVE block_stmts_loop(_, _)
RECURSIVE parse_if_stmt(_)
RECURSIVE elif_loop(_, _)
RECURSIVE parse_while_stmt(_)
RECURSIVE parse_for_stmt(_)
RECURSIVE parse_match_stmt(_)
RECURSIVE parse_case_block(_)
RECURSIVE case_loop(_, _)
RECURSIVE parse_case_stmt(_)

None == [some |-> FALSE]
Some(v) == [some |-> TRUE, val |-> v]

EmptyStmt(meta) == [kind |-> "Empty", meta |-> meta, source |-> "Source"]

parse_pass_stmt(ps) ==
  LET start == ps.index IN
      Let(expect_keyword(ps, "Pass"), LAMBDA k: IF ~k.ok THEN k ELSE
     Let(expect_line_end(k.ps), LAMBDA e: IF ~e.ok THEN e ELSE
     Finish(e.ps, start, [kind |-> "Pass", meta |-> <<>>])))

\* the augmented-assignment arm is never taken: the lexer emits no
\* PlusAssign .. PercentAssign operator token
parse_simple_stmt(ps) ==
  LET start == ps.index IN
      Let(parse_expression(ps), LAMBDA expr: IF ~expr.ok THEN expr ELSE
     Let(match_operator(expr.ps, "Assign"), LAMBDA eq:
     IF eq.hit
     THEN Let(parse_expression_no_generator(eq.ps), LAMBDA value: IF ~value.ok THEN value ELSE
          Let(expect_line_end(value.ps), LAMBDA e: IF ~e.ok THEN e ELSE
          Finish(e.ps, start,
            [kind |-> "Assign", meta |-> <<>>, target |-> expr.val, value |-> value.val])))
     ELSE Let(expect_line_end(eq.ps), LAMBDA e: IF ~e.ok THEN e ELSE
          Finish(e.ps, start, [kind |-> "Expr", meta |-> <<>>, expr |-> expr.val]))))

elif_loop(ps, elifs) ==
  Let(match_keyword(ps, "Elif"), LAMBDA m:
  IF ~m.hit THEN Ok(ps, elifs) ELSE
  LET elif_start == prev_index(m.ps) IN
      Let(parse_expression(m.ps), LAMBDA cond: IF ~cond.ok THEN cond ELSE
     Let(expect_tag(cond.ps, "Colon"), LAMBDA c: IF ~c.ok THEN c ELSE
     Let(Call("parse_block", c.ps, <<>>, <<>>), LAMBDA body: IF ~body.ok THEN body ELSE
     Let(node_meta(body.ps, elif_start, prev_index(body.ps)), LAMBDA meta: elif_loop(meta.ps,
          Append(elifs, [meta |-> meta.meta, condition |-> cond.val, body |-> body.val])))))))

parse_if_stmt(ps) ==
  LET start == ps.index IN
      Let(expect_keyword(ps, "If"), LAMBDA k: IF ~k.ok THEN k ELSE
     Let(parse_expression(k.ps), LAMBDA cond: IF ~cond.ok THEN cond ELSE
     Let(expect_tag(cond.ps, "Colon"), LAMBDA c: IF ~c.ok THEN c ELSE
     Let(Call("parse_block", c.ps, <<>>, <<>>), LAMBDA body: IF ~body.ok THEN body ELSE
     Let(elif_loop(body.ps, <<>>), LAMBDA elifs: IF ~elifs.ok THEN elifs ELSE
     Let(match_keyword(elifs.ps, "Else"), LAMBDA el:
         Let(IF el.hit THEN expect_tag(el.ps, "Colon") ELSE Ok(el.ps, <<>>), LAMBDA ec: IF ~ec.ok THEN ec ELSE
        Let(IF el.hit THEN Call("parse_block", ec.ps, <<>>, <<>>) ELSE Ok(ec.ps, <<>>), LAMBDA else_body: IF ~else_body.ok THEN else_body ELSE
           Finish(else_body.ps, start,
             [kind |-> "If", meta |-> <<>>, condition |-> cond.val, body |-> body.val,
              elifs |-> elifs.val,
              else_body |-> IF el.hit THEN Some(else_body.val) ELSE None])))))))))

parse_while_stmt(ps) ==
  LET start == ps.index IN
      Let(expect_keyword(ps, "While"), LAMBDA k: IF ~k.ok THEN k ELSE
     Let(parse_expression(k.ps), LAMBDA cond: IF ~cond.ok THEN cond ELSE
     Let(expect_tag(cond.ps, "Colon"), LAMBDA c: IF ~c.ok THEN c ELSE
     Let(Call("parse_block", c.ps, <<>>, <<>>), LAMBDA body: IF ~body.ok THEN body ELSE
     Finish(body.ps, start,
       [kind |-> "While", meta |-> <<>>, condition |-> cond.val, body |-> body.val])))))

parse_for_stmt(ps) ==
  LET start == ps.index IN
      Let(expect_keyword(ps, "For"), LAMBDA k: IF ~k.ok THEN k ELSE
     Let(parse_expression(k.ps), LAMBDA target: IF ~target.ok THEN target ELSE
     Let(expect_keyword(target.ps, "In"), LAMBDA in: IF ~in.ok THEN in ELSE
     Let(parse_expression(in.ps), LAMBDA iterable: IF ~iterable.ok THEN iterable ELSE
     Let(expect_tag(iterable.ps, "Colon"), LAMBDA c: IF ~c.ok THEN c ELSE
     Let(Call("parse_block", c.ps, <<>>, <<>>), LAMBDA body: IF ~body.ok THEN body ELSE
     Finish(body.ps, start,
       [kind |-> "For", meta |-> <<>>, target |-> target.val, iterable |-> iterable.val,
        body |-> body.val])))))))

parse_pattern(ps) ==
  LET start == ps.index IN
      Let(parse_expression(ps), LAMBDA expr: IF ~expr.ok THEN expr ELSE
     Let(node_meta(expr.ps, start, prev_index(expr.ps)), LAMBDA m:
     CASE expr.val.kind = "Identifier" /\ expr.val.name = <<"_">> ->
            Ok(m.ps, [kind |-> "Wildcard", meta |-> m.meta])
       [] expr.val.kind = "Identifier" /\ expr.val.name # <<"_">> ->
            Ok(m.ps, [kind |-> "Identifier", meta |-> m.meta, name |-> expr.val.name])
       [] expr.val.kind = "Literal" ->
            Ok(m.ps, [kind |-> "Literal", meta |-> m.meta, literal |-> expr.val.literal])
       [] OTHER -> ParserErr(m.ps, Parser_error(m.ps, "unsupported match pattern"))))

parse_case_stmt(ps) ==
  LET start == ps.index IN
      Let(expect_keyword(ps, "Case"), LAMBDA k: IF ~k.ok THEN k ELSE
     Let(parse_pattern(k.ps), LAMBDA pattern: IF ~pattern.ok THEN pattern ELSE
     Let(expect_tag(pattern.ps, "Colon"), LAMBDA c: IF ~c.ok THEN c ELSE
     Let(Call("parse_block", c.ps, <<>>, <<>>), LAMBDA body: IF ~body.ok THEN body ELSE
     Finish(body.ps, start, [meta |-> <<>>, pattern |-> pattern.val, body |-> body.val])))))

case_loop(ps, cases) ==
  IF check_tag(ps, "Dedent") \/ check_tag(ps, "Eof") THEN Ok(ps, cases)
  ELSE Let(match_tag(ps, "Newline"), LAMBDA nl:
       IF nl.hit THEN case_loop(nl.ps, cases)
       ELSE Let(parse_case_stmt(ps), LAMBDA c: IF ~c.ok THEN c ELSE case_loop(c.ps, Append(cases, c.val))))

parse_case_block(ps) ==
  LET start == ps.index IN
      Let(expect_tag(ps, "Newline"), LAMBDA nl: IF ~nl.ok THEN nl ELSE
     Let(expect_indent(nl.ps), LAMBDA indent: IF ~indent.ok THEN indent ELSE
     Let(case_loop(indent.ps, <<>>), LAMBDA cases: IF ~cases.ok THEN cases ELSE
     Let(expect_tag(cases.ps, "Dedent"), LAMBDA d: IF ~d.ok THEN d ELSE
     Finish(d.ps, start, [meta |-> <<>>, indent_level |-> indent.val, cases |-> cases.val])))))

\* parse_match_stmt without the test of features.match_stmt
parse_match_stmt_ungated(ps) ==
  LET start == ps.index IN
      Let(expect_keyword(ps, "Match"), LAMBDA k: IF ~k.ok THEN k ELSE
     Let(parse_expression(k.ps), LAMBDA subject: IF ~subject.ok THEN subject ELSE
     Let(expect_tag(subject.ps, "Colon"), LAMBDA c: IF ~c.ok THEN c ELSE
     Let(parse_case_block(c.ps), LAMBDA cases: IF ~cases.ok THEN cases ELSE
     Finish(cases.ps, start,
       [kind |-> "Match", meta |-> <<>>, subject |-> subject.val, cases |-> cases.val])))))

parse_match_stmt(ps) ==
  IF ~ps.config.features.match_stmt THEN ParserErr(ps, Parser_error(ps, "match is disabled")) ELSE
  LET start == ps.index IN
      Let(expect_keyword(ps, "Match"), LAMBDA k: IF ~k.ok THEN k ELSE
     Let(parse_expression(k.ps), LAMBDA subject: IF ~subject.ok THEN subject ELSE
     Let(expect_tag(subject.ps, "Colon"), LAMBDA c: IF ~c.ok THEN c ELSE
     Let(parse_case_block(c.ps), LAMBDA cases: IF ~cases.ok THEN cases ELSE
     Finish(cases.ps, start,
       [kind |-> "Match", meta |-> <<>>, subject |-> subject.val, cases |-> cases.val])))))

\* the newline tokens absorbed before the Indent; val is the list of their indices
block_blank_loop(ps, pending_blank) ==
  IF check_tag(ps, "Newline")
  THEN block_blank_loop(advance(ps), Append(pending_blank, ps.index))
  ELSE Ok(ps, pending_blank)

\* one EmptyStmt per absorbed newline, metas allocated in order
RECURSIVE pending_blank_stmts(_, _, _)
pending_blank_stmts(ps, pending_blank, statements) ==
  IF pending_blank = <<>> THEN Ok(ps, statements)
  ELSE Let(node_meta(ps, Head(pending_blank), Head(pending_blank)), LAMBDA m: pending_blank_stmts(m.ps, Tail(pending_blank), Append(statements, EmptyStmt(m.meta))))

block_stmts_loop(ps, statements) ==
  IF check_tag(ps, "Dedent") \/ check_tag(ps, "Eof") THEN Ok(ps, statements)
  ELSE IF check_tag(ps, "Newline")
  THEN Let(node_meta(advance(ps), ps.index, ps.index), LAMBDA m: block_stmts_loop(m.ps, Append(statements, EmptyStmt(m.meta))))
  ELSE Let(Call("parse_stmt", ps, <<>>, <<>>), LAMBDA r: IF ~r.ok THEN r ELSE block_stmts_loop(r.ps, Append(statements, r.val)))

parse_block(ps) ==
  LET start == ps.index IN
      Let(expect_tag(ps, "Newline"), LAMBDA nl: IF ~nl.ok THEN nl ELSE
     Let(block_blank_loop(nl.ps, <<>>), LAMBDA blanks:
         Let(expect_indent(blanks.ps), LAMBDA indent: IF ~indent.ok THEN indent ELSE
        Let(pending_blank_stmts(indent.ps, blanks.val, <<>>), LAMBDA pre:
            Let(block_stmts_loop(pre.ps, pre.val), LAMBDA stmts: IF ~stmts.ok THEN stmts ELSE
           Let(expect_tag(stmts.ps, "Dedent"), LAMBDA d: IF ~d.ok THEN d ELSE
           Finish(d.ps, start,
             [meta |-> <<>>, indent_level |-> indent.val, statements |-> stmts.val])))))))

\* Keyword::Def opens parse_function_def, whose statement has no IR counterpart;
\* no modelled input contains `def`.  The keywords class, return, break,
\* continue, import, from, try, except and finally are never produced by the lexer.
parse_stmt(ps) ==
  Let(peek_kind(ps), LAMBDA kind:
  CASE is_keyword(kind, "If") -> parse_if_stmt(ps)
    [] is_keyword(kind, "While") -> parse_while_stmt(ps)
    [] is_keyword(kind, "For") -> parse_for_stmt(ps)
    [] is_keyword(kind, "Match") -> parse_match_stmt(ps)
    [] is_keyword(kind, "Pass") -> parse_pass_stmt(ps)
    [] is_keyword(kind, "Elif") \/ is_keyword(kind, "Else") ->
         ParserErr(ps, Parser_error(ps, "elif/else must follow if"))
    [] is_keyword(kind, "Case") -> ParserErr(ps, Parser_error(ps, "case outside match"))
    [] OTHER -> parse_simple_stmt(ps))

RECURSIVE program_loop(_, _)
program_loop(ps, body) ==
  IF check_tag(ps, "Eof") THEN Ok(ps, body)
  ELSE IF check_tag(ps, "Newline")
  THEN IF TokenTagOf(peek_kind_offset(ps, 1)) = "Eof" THEN Ok(advance(ps), body)
       ELSE Let(node_meta(advance(ps), ps.index, ps.index), LAMBDA m: program_loop(m.ps, Append(body, EmptyStmt(m.meta))))
  ELSE Let(Call("parse_stmt", ps, <<>>, <<>>), LAMBDA r: IF ~r.ok THEN r ELSE program_loop(r.ps, Append(body, r.val)))

Program(meta, indent_width, body, tokens, raw_tokens, dirty) ==
  [meta |-> meta, indent_width |-> indent_width, body |-> body, tokens |-> tokens,
   raw_tokens |-> raw_tokens, dirty |-> dirty]

parse_program(ps) ==
  LET start == ps.index IN
      Let(program_loop(ps, <<>>), LAMBDA r: IF ~r.ok THEN r
     ELSE Let(node_meta(r.ps, start, prev_index(r.ps)), LAMBDA m: Ok(m.ps, Program(m.meta, ps.indent_width, r.val, <<>>, <<>>, FALSE))))

\* Program::parse: Result<Program, ParseError>
Program_parse(src, config) ==
  Let(lex(src), LAMBDA lexed:
  IF ~lexed.ok THEN lexed ELSE
  LET raw_tokens == lexed.tokens IN
      Let(attach_trivia(insert_indent_tokens(lexed.tokens)), LAMBDA tokens:
      Let(parse_program(Parser_new(tokens, config, lexed.indent_width)), LAMBDA r: IF ~r.ok THEN r
     ELSE [ok |-> TRUE, panicked |-> r.ps.panicked, past_eof |-> r.ps.past_eof,
           program |-> [r.val EXCEPT !.tokens = tokens, !.raw_tokens = raw_tokens]])))

(* ------------------------------------------------------------------ *)
(* Renderer                                                            *)
(* ------------------------------------------------------------------ *)
RenderConfig(mode, reuse_token_ranges) ==
  [mode |-> mode, reuse_token_ranges |-> reuse_token_ranges]
RenderConfig_default == RenderConfig("Lossless", TRUE)

\* concatenation of the parts, halved so that the evaluation stays shallow
RECURSIVE Flatten(_)
Flatten(parts) ==
  IF parts = <<>> THEN <<>>
  ELSE IF Len(parts) = 1 THEN parts[1]
  ELSE Let(Len(parts) \div 2, LAMBDA mid: Flatten(SubSeq(parts, 1, mid)) \o Flatten(SubSeq(parts, mid + 1, Len(parts))))

\* Vec<String>::join
join(parts, sep) ==
  IF parts = <<>> THEN <<>>
  ELSE Flatten([i \in 1..(2 * Len(parts) - 1) |->
                  IF i % 2 = 1 THEN parts[(i + 1) \div 2] ELSE sep])

\* str::split('\n'); the text is halved so that the evaluation stays shallow: the
\* last line of the left half continues in the first line of the right half
RECURSIVE split(_)
split(text) ==
  IF Len(text) = 0 THEN <<(<<>>)>>
  ELSE IF Len(text) = 1 THEN (IF text[1] = NL THEN <<(<<>>), (<<>>)>> ELSE <<text>>)
  ELSE Let(Len(text) \div 2, LAMBDA mid:
           Let(split(SubSeq(text, 1, mid)), LAMBDA left:
           Let(split(SubSeq(text, mid + 1, Len(text))), LAMBDA right: Front(left) \o <<Last(left) \o Head(right)>> \o Tail(right))))

indent_str(count) == [i \in 1..count |-> " "]

\* render_lossless with the trivia tokens left out
render_lossless_without_trivia(tokens) ==
  Flatten([i \in 1..Len(tokens) |-> IF is_trivia(tokens[i].kind) THEN <<>> ELSE tokens[i].raw])

render_lossless(tokens) == Flatten([i \in 1..Len(tokens) |-> tokens[i].raw])

render_trivia(trivia) ==
  CASE trivia.kind.tag = "Comment" -> <<HASH>> \o trivia.kind.text
    [] trivia.kind.tag = "RawWhitespace" -> trivia.kind.text
    [] OTHER -> <<NL>>

render_token(token) ==
  Flatten([i \in 1..Len(token.leading_trivia) |-> render_trivia(token.leading_trivia[i])])
  \o token.raw
  \o Flatten([i \in 1..Len(token.trailing_trivia) |-> render_trivia(token.trailing_trivia[i])])

\* Option<String>
render_token_range(tokens, range) ==
  IF range.start > range.end \/ range.end >= Len(tokens) THEN None
  ELSE Some(Flatten([i \in 1..(range.end - range.start + 1) |->
                       render_token(tokens[range.start + i])]))

render_literal(literal) ==
  CASE literal.kind = "Number" -> literal.raw
    [] literal.kind = "String" -> literal.raw
    [] literal.kind = "Bool" ->
         IF literal.value THEN <<"T", "r", "u", "e">> ELSE <<"F", "a", "l", "s", "e">>
    [] OTHER -> <<"N", "o", "n", "e">>

render_pattern(pattern) ==
  CASE pattern.kind = "Wildcard" -> <<"_">>
    [] pattern.kind = "Identifier" -> pattern.name
    [] OTHER -> render_literal(pattern.literal)

binary_precedence(op) == precedence(op)
boolop_precedence(op) == IF op = "Or" THEN 2 ELSE 3

wrap_if_needed(rendered, prec, parent_prec) ==
  IF prec < parent_prec THEN <<"(">> \o rendered \o <<")">> ELSE rendered

BinaryOpText(op) ==
  CASE op = "Add" -> <<"+">>
    [] op = "Sub" -> <<"-">>
    [] op = "Mul" -> <<"*">>
    [] op = "Div" -> <<"/">>
    [] op = "Mod" -> <<"%">>
    [] op = "FloorDiv" -> <<"/", "/">>
    [] op = "Power" -> <<"*", "*">>

CompareOpText(op) ==
  CASE op = "Eq" -> <<"=", "=">>
    [] op = "NotEq" -> <<"!", "=">>
    [] op = "Lt" -> <<"<">>
    [] op = "LtEq" -> <<"<", "=">>
    [] op = "Gt" -> <<">">>
    [] op = "GtEq" -> <<">", "=">>
    [] op = "In" -> <<"i", "n">>
    [] op = "NotIn" -> <<"n", "o", "t", " ", "i", "n">>
    [] op = "Is" -> <<"i", "s">>
    [] op = "IsNot" -> <<"i", "s", " ", "n", "o", "t">>

CommaSpace == <<",", " ">>

RECURSIVE render_expr(_, _)
RECURSIVE render_suffix(_)
render_suffix(fors) ==
  Flatten([i \in 1..Len(fors) |->
    <<" ", "f", "o", "r", " ">> \o render_expr(fors[i].target, 0)
      \o <<" ", "i", "n", " ">> \o render_expr(fors[i].iter, 0)
      \o Flatten([j \in 1..Len(fors[i].ifs) |->
                    <<" ", "i", "f", " ">> \o render_expr(fors[i].ifs[j], 0)])])

render_expr(expr, parent_prec) ==
  CASE expr.kind = "Identifier" -> expr.name
    [] expr.kind = "Literal" -> render_literal(expr.literal)
    [] expr.kind = "Grouped" ->
         IF expr.expr.kind = "Comprehension" THEN render_expr(expr.expr, 0)
         ELSE <<"(">> \o render_expr(expr.expr, 0) \o <<")">>
    [] expr.kind = "Tuple" ->
         IF Len(expr.elements) = 1 THEN render_expr(expr.elements[1], 0) \o <<",">>
         ELSE join([i \in 1..Len(expr.elements) |-> render_expr(expr.elements[i], 0)],
                   CommaSpace)
    [] expr.kind = "Comprehension" ->
         <<"(">> \o render_expr(expr.element, 0) \o render_suffix(expr.fors) \o <<")">>
    [] expr.kind = "Attribute" ->
         wrap_if_needed(render_expr(expr.value, 13) \o <<".">> \o expr.attr, 13, parent_prec)
    [] expr.kind = "Call" ->
         LET prec == 13 IN
             LET callee == render_expr(expr.callee, prec) IN
             LET args_parts == [i \in 1..Len(expr.args) |-> render_expr(expr.args[i], 0)] IN
             LET kwargs_parts == [i \in 1..Len(expr.kwargs) |->
                                expr.kwargs[i].name \o <<"=">>
                                  \o render_expr(expr.kwargs[i].value, 0)] IN
             LET rendered == callee \o <<"(">> \o join(args_parts \o kwargs_parts, CommaSpace)
                           \o <<")">> IN wrap_if_needed(rendered, prec, parent_prec)
    [] expr.kind = "Unary" ->
         LET prec == 12 IN
             LET value == render_expr(expr.expr, prec) IN
             LET op == IF expr.op = "Neg" THEN <<"-">> ELSE <<"n", "o", "t", " ">> IN wrap_if_needed(op \o value, prec, parent_prec)
    [] expr.kind = "BoolOp" ->
         Let(boolop_precedence(expr.op), LAMBDA prec:
             LET op == IF expr.op = "And" THEN <<" ", "a", "n", "d", " ">>
                   ELSE <<" ", "o", "r", " ">> IN
             LET rendered == join([i \in 1..Len(expr.values) |->
                                 render_expr(expr.values[i], prec + 1)], op) IN wrap_if_needed(rendered, prec, parent_prec))
    [] expr.kind = "Compare" ->
         LET prec == 4 IN
             LET rendered == render_expr(expr.left, prec + 1)
               \o Flatten([i \in 1..Len(expr.ops) |->
                    <<" ">> \o CompareOpText(expr.ops[i]) \o <<" ">>
                      \o render_expr(expr.comparators[i], prec + 1)]) IN wrap_if_needed(rendered, prec, parent_prec)
    [] expr.kind = "IfExpr" ->
         LET prec == 1 IN
             LET body == render_expr(expr.body, prec + 1) IN
             LET condition == render_expr(expr.condition, prec + 1) IN
             LET else_body == render_expr(expr.else_body, prec) IN wrap_if_needed(body \o <<" ", "i", "f", " ">> \o condition
                             \o <<" ", "e", "l", "s", "e", " ">> \o else_body,
                           prec, parent_prec)
    [] expr.kind = "Lambda" ->
         LET prec == 0 IN
             Let(join(expr.params, CommaSpace), LAMBDA params:
             Let(render_expr(expr.body, 0), LAMBDA body:
             LET rendered == IF params = <<>>
                         THEN <<"l", "a", "m", "b", "d", "a", ":", " ">> \o body
                         ELSE <<"l", "a", "m", "b", "d", "a", " ">> \o params
                                \o <<":", " ">> \o body IN wrap_if_needed(rendered, prec, parent_prec)))
    [] expr.kind = "Binary" ->
         Let(binary_precedence(expr.op), LAMBDA prec:
             LET left == render_expr(expr.left, prec) IN
             LET right == render_expr(expr.right, prec + 1) IN wrap_if_needed(left \o <<" ">> \o BinaryOpText(expr.op) \o <<" ">> \o right,
                           prec, parent_prec))

RECURSIVE render_stmt(_, _, _, _)
RECURSIVE render_block(_, _, _, _)
RECURSIVE render_stmts(_, _, _, _)
RECURSIVE render_elifs(_, _, _, _)
RECURSIVE render_cases(_, _, _, _)

PrettyContext(tokens, reuse_token_ranges) ==
  [tokens |-> tokens, reuse_token_ranges |-> reuse_token_ranges]

stmt_meta(stmt) == stmt.meta

\* `for stmt in statements { render_stmt(stmt, ...) }`: the lines pushed, in order
render_stmts(statements, indent_level, indent_width, context) ==
  IF statements = <<>> THEN <<>>
  ELSE render_stmt(Head(statements), indent_level, indent_width, context)
         \o render_stmts(Tail(statements), indent_level, indent_width, context)

render_block(block, indent_level, indent_width, context) ==
  IF block.statements = <<>>
  THEN << indent_str(indent_level * indent_width) \o <<"p", "a", "s", "s">> >>
  ELSE render_stmts(block.statements, indent_level, indent_width, context)

render_elifs(elifs, indent_level, indent_width, context) ==
  IF elifs = <<>> THEN <<>>
  ELSE << indent_str(indent_level * indent_width) \o <<"e", "l", "i", "f", " ">>
            \o render_expr(Head(elifs).condition, 0) \o <<":">> >>
         \o render_block(Head(elifs).body, indent_level + 1, indent_width, context)
         \o render_elifs(Tail(elifs), indent_level, indent_width, context)

render_cases(cases, indent_level, indent_width, context) ==
  IF cases = <<>> THEN <<>>
  ELSE << indent_str(indent_level * indent_width) \o <<"c", "a", "s", "e", " ">>
            \o render_pattern(Head(cases).pattern) \o <<":">> >>
         \o render_block(Head(cases).body, indent_level + 1, indent_width, context)
         \o render_cases(Tail(cases), indent_level, indent_width, context)

render_case_block(block, indent_level, indent_width, context) ==
  render_cases(block.cases, indent_level, indent_width, context)

\* the lines render_stmt pushes for one statement
render_stmt(stmt, indent_level, indent_width, context) ==
  Let(IF context.reuse_token_ranges /\ context.tokens.some
                THEN render_token_range(context.tokens.val, stmt_meta(stmt).token_range)
                ELSE None, LAMBDA reused:
      Let(indent_str(indent_level * indent_width), LAMBDA prefix: IF reused.some THEN split(reused.val)
     ELSE CASE stmt.kind = "If" ->
                 << prefix \o <<"i", "f", " ">> \o render_expr(stmt.condition, 0) \o <<":">> >>
                 \o render_block(stmt.body, indent_level + 1, indent_width, context)
                 \o render_elifs(stmt.elifs, indent_level, indent_width, context)
                 \o (IF stmt.else_body.some
                     THEN << prefix \o <<"e", "l", "s", "e", ":">> >>
                          \o render_block(stmt.else_body.val, indent_level + 1, indent_width,
                                          context)
                     ELSE <<>>)
            [] stmt.kind = "While" ->
                 << prefix \o <<"w", "h", "i", "l", "e", " ">>
                      \o render_expr(stmt.condition, 0) \o <<":">> >>
                 \o render_block(stmt.body, indent_level + 1, indent_width, context)
            [] stmt.kind = "For" ->
                 << prefix \o <<"f", "o", "r", " ">> \o render_expr(stmt.target, 0)
                      \o <<" ", "i", "n", " ">> \o render_expr(stmt.iterable, 0) \o <<":">> >>
                 \o render_block(stmt.body, indent_level + 1, indent_width, context)
            [] stmt.kind = "Match" ->
                 << prefix \o <<"m", "a", "t", "c", "h", " ">>
                      \o render_expr(stmt.subject, 0) \o <<":">> >>
                 \o render_case_block(stmt.cases, indent_level + 1, indent_width, context)
            [] stmt.kind = "Assign" ->
                 << prefix \o render_expr(stmt.target, 0) \o <<" ", "=", " ">>
                      \o render_expr(stmt.value, 0) >>
            [] stmt.kind = "Expr" -> << prefix \o render_expr(stmt.expr, 0) >>
            [] stmt.kind = "Pass" -> << prefix \o <<"p", "a", "s", "s">> >>
            [] stmt.kind = "Empty" -> << <<>> >>))

render_pretty(program, config) ==
  LET context == PrettyContext(IF config.reuse_token_ranges THEN Some(program.tokens)
                               ELSE None,
                               config.reuse_token_ranges) IN
      LET lines == render_stmts(program.body, 0, program.indent_width, context) IN
      Let(join(lines, <<NL>>), LAMBDA output: IF output = <<>> THEN output ELSE output \o <<NL>>)

\* Program::to_python without the test of the dirty flag
to_python_ignoring_dirty(program, config) ==
  IF config.mode = "Lossless" /\ program.raw_tokens # <<>>
  THEN render_lossless(program.raw_tokens)
  ELSE render_pretty(program, config)

\* Program::to_python
to_python(program, config) ==
  IF config.mode = "Lossless" /\ ~program.dirty /\ program.raw_tokens # <<>>
  THEN render_lossless(program.raw_tokens)
  ELSE render_pretty(program, config)

(* ------------------------------------------------------------------ *)
(* Surface <-> IR translation                                          *)
(* An IR node carries its variant in the field `ir`, a surface node in  *)
(* the field `kind`.                                                    *)
(* ------------------------------------------------------------------ *)
Map(f(_), xs) == [i \in 1..Len(xs) |-> f(xs[i])]

IrProgram(meta, indent_width, body, token_store, dirty) ==
  [meta |-> meta, indent_width |-> indent_width, body |-> body,
   token_store |-> token_store, dirty |-> dirty]

TokenStore(raw_tokens) == [raw_tokens |-> raw_tokens]

Program_empty(indent_width) ==
  Program(NodeMeta_default, indent_width, <<>>, <<>>, <<>>, FALSE)

RECURSIVE expr_to_ir(_)
RECURSIVE comprehension_for_to_ir(_)
comprehension_for_to_ir(comp) ==
  [meta |-> comp.meta, target |-> expr_to_ir(comp.target), iter |-> expr_to_ir(comp.iter),
   ifs |-> Map(expr_to_ir, comp.ifs)]

\* IrCallExpr has the fields meta, callee and args: the keyword arguments of the
\* parser's CallExpr have no IR counterpart, and no modelled source has one
expr_to_ir(expr) ==
  CASE expr.kind = "Identifier" -> [ir |-> "Identifier", meta |-> expr.meta, name |-> expr.name]
    [] expr.kind = "Literal" ->
         [ir |-> "Literal", meta |-> expr.meta, literal |-> expr.literal]
    [] expr.kind = "Binary" ->
         [ir |-> "Binary", meta |-> expr.meta, left |-> expr_to_ir(expr.left),
          op |-> expr.op, right |-> expr_to_ir(expr.right)]
    [] expr.kind = "Unary" ->
         [ir |-> "Unary", meta |-> expr.meta, op |-> expr.op, expr |-> expr_to_ir(expr.expr)]
    [] expr.kind = "BoolOp" ->
         [ir |-> "BoolOp", meta |-> expr.meta, op |-> expr.op,
          values |-> Map(expr_to_ir, expr.values)]
    [] expr.kind = "Compare" ->
         [ir |-> "Compare", meta |-> expr.meta, left |-> expr_to_ir(expr.left),
          ops |-> expr.ops, comparators |-> Map(expr_to_ir, expr.comparators)]
    [] expr.kind = "Lambda" ->
         [ir |-> "Lambda", meta |-> expr.meta, params |-> expr.params,
          body |-> expr_to_ir(expr.body)]
    [] expr.kind = "IfExpr" ->
         [ir |-> "IfExpr", meta |-> expr.meta, body |-> expr_to_ir(expr.body),
          condition |-> expr_to_ir(expr.condition), else_body |-> expr_to_ir(expr.else_body)]
    [] expr.kind = "Call" ->
         [ir |-> "Call", meta |-> expr.meta, callee |-> expr_to_ir(expr.callee),
          args |-> Map(expr_to_ir, expr.args)]
    [] expr.kind = "Tuple" ->
         [ir |-> "Tuple", meta |-> expr.meta, elements |-> Map(expr_to_ir, expr.elements)]
    [] expr.kind = "Attribute" ->
         [ir |-> "Attribute", meta |-> expr.meta, value |-> expr_to_ir(expr.value),
          attr |-> expr.attr]
    [] expr.kind = "Grouped" ->
         [ir |-> "Grouped", meta |-> expr.meta, expr |-> expr_to_ir(expr.expr)]
    [] expr.kind = "Comprehension" ->
         [ir |-> "Comprehension", variant |-> expr.variant, meta |-> expr.meta,
          element |-> expr_to_ir(expr.element),
          fors |-> Map(comprehension_for_to_ir, expr.fors)]

RECURSIVE expr_from_ir(_)
RECURSIVE comprehension_for_from_ir(_)
comprehension_for_from_ir(comp) ==
  [meta |-> comp.meta, target |-> expr_from_ir(comp.target),
   iter |-> expr_from_ir(comp.iter), ifs |-> Map(expr_from_ir, comp.ifs)]

expr_from_ir(expr) ==
  CASE expr.ir = "Identifier" -> [kind |-> "Identifier", meta |-> expr.meta, name |-> expr.name]
    [] expr.ir = "Literal" ->
         [kind |-> "Literal", meta |-> expr.meta, literal |-> expr.literal]
    [] expr.ir = "Binary" ->
         [kind |-> "Binary", meta |-> expr.meta, left |-> expr_from_ir(expr.left),
          op |-> expr.op, right |-> expr_from_ir(expr.right)]
    [] expr.ir = "Unary" ->
         [kind |-> "Unary", meta |-> expr.meta, op |-> expr.op,
          expr |-> expr_from_ir(expr.expr)]
    [] expr.ir = "BoolOp" ->
         [kind |-> "BoolOp", meta |-> expr.meta, op |-> expr.op,
          values |-> Map(expr_from_ir, expr.values)]
    [] expr.ir = "Compare" ->
         [kind |-> "Compare", meta |-> expr.meta, left |-> expr_from_ir(expr.left),
          ops |-> expr.ops, comparators |-> Map(expr_from_ir, expr.comparators)]
    [] expr.ir = "Lambda" ->
         [kind |-> "Lambda", meta |-> expr.meta, params |-> expr.params,
          body |-> expr_from_ir(expr.body)]
    [] expr.ir = "IfExpr" ->
         [kind |-> "IfExpr", meta |-> expr.meta, body |-> expr_from_ir(expr.body),
          condition |-> expr_from_ir(expr.condition),
          else_body |-> expr_from_ir(expr.else_body)]
    [] expr.ir = "Call" ->
         [kind |-> "Call", meta |-> expr.meta, callee |-> expr_from_ir(expr.callee),
          args |-> Map(expr_from_ir, expr.args), kwargs |-> <<>>]
    [] expr.ir = "Tuple" ->
         [kind |-> "Tuple", meta |-> expr.meta, elements |-> Map(expr_from_ir, expr.elements)]
    [] expr.ir = "Attribute" ->
         [kind |-> "Attribute", meta |-> expr.meta, value |-> expr_from_ir(expr.value),
          attr |-> expr.attr]
    [] expr.ir = "Grouped" ->
         [kind |-> "Grouped", meta |-> expr.meta, expr |-> expr_from_ir(expr.expr)]
    [] expr.ir = "Comprehension" ->
         [kind |-> "Comprehension", variant |-> expr.variant, meta |-> expr.meta,
          element |-> expr_from_ir(expr.element),
          fors |-> Map(comprehension_for_from_ir, expr.fors)]

pattern_to_ir(pattern) ==
  CASE pattern.kind = "Wildcard" -> [ir |-> "Wildcard", meta |-> pattern.meta]
    [] pattern.kind = "Identifier" ->
         [ir |-> "Identifier", meta |-> pattern.meta, name |-> pattern.name]
    [] pattern.kind = "Literal" ->
         [ir |-> "Literal", meta |-> pattern.meta, literal |-> pattern.literal]

pattern_from_ir(pattern) ==
  CASE pattern.ir = "Wildcard" -> [kind |-> "Wildcard", meta |-> pattern.meta]
    [] pattern.ir = "Identifier" ->
         [kind |-> "Identifier", meta |-> pattern.meta, name |-> pattern.name]
    [] pattern.ir = "Literal" ->
         [kind |-> "Literal", meta |-> pattern.meta, literal |-> pattern.literal]

RECURSIVE stmt_to_ir(_)
RECURSIVE block_to_ir(_)
block_to_ir(block) ==
  [meta |-> block.meta, indent_level |-> block.indent_level,
   statements |-> Map(stmt_to_ir, block.statements)]

elif_to_ir(elif) ==
  [meta |-> elif.meta, condition |-> expr_to_ir(elif.condition), body |-> block_to_ir(elif.body)]

case_to_ir(case_stmt) ==
  [meta |-> case_stmt.meta, pattern |-> pattern_to_ir(case_stmt.pattern),
   body |-> block_to_ir(case_stmt.body)]

stmt_to_ir(stmt) ==
  CASE stmt.kind = "If" ->
         [ir |-> "If", meta |-> stmt.meta, condition |-> expr_to_ir(stmt.condition),
          body |-> block_to_ir(stmt.body), elifs |-> Map(elif_to_ir, stmt.elifs),
          else_body |-> IF stmt.else_body.some THEN Some(block_to_ir(stmt.else_body.val))
                        ELSE None]
    [] stmt.kind = "While" ->
         [ir |-> "While", meta |-> stmt.meta, condition |-> expr_to_ir(stmt.condition),
          body |-> block_to_ir(stmt.body)]
    [] stmt.kind = "For" ->
         [ir |-> "For", meta |-> stmt.meta, target |-> expr_to_ir(stmt.target),
          iterable |-> expr_to_ir(stmt.iterable), body |-> block_to_ir(stmt.body)]
    [] stmt.kind = "Match" ->
         [ir |-> "Match", meta |-> stmt.meta, subject |-> expr_to_ir(stmt.subject),
          cases |-> [meta |-> stmt.cases.meta, indent_level |-> stmt.cases.indent_level,
                     cases |-> Map(case_to_ir, stmt.cases.cases)]]
    [] stmt.kind = "Assign" ->
         [ir |-> "Assign", meta |-> stmt.meta, target |-> expr_to_ir(stmt.target),
          value |-> expr_to_ir(stmt.value)]
    [] stmt.kind = "Expr" -> [ir |-> "Expr", meta |-> stmt.meta, expr |-> expr_to_ir(stmt.expr)]
    [] stmt.kind = "Pass" -> [ir |-> "Pass", meta |-> stmt.meta]
    [] stmt.kind = "Empty" -> [ir |-> "Empty", meta |-> stmt.meta, source |-> stmt.source]

RECURSIVE stmt_from_ir_with_indent(_, _)
RECURSIVE block_from_ir_with_indent(_, _)
\* block_from_ir_with_indent keeping the level stored in the IR block
block_from_ir_keeping_level(block, indent_level) ==
  [meta |-> block.meta, indent_level |-> block.indent_level,
   statements |-> [i \in 1..Len(block.statements) |->
                     stmt_from_ir_with_indent(block.statements[i], indent_level)]]

block_from_ir_with_indent(block, indent_level) ==
  [meta |-> block.meta, indent_level |-> indent_level,
   statements |-> [i \in 1..Len(block.statements) |->
                     stmt_from_ir_with_indent(block.statements[i], indent_level)]]

stmt_from_ir_with_indent(stmt, indent_level) ==
  CASE stmt.ir = "If" ->
         [kind |-> "If", meta |-> stmt.meta, condition |-> expr_from_ir(stmt.condition),
          body |-> block_from_ir_with_indent(stmt.body, indent_level + 1),
          elifs |-> [i \in 1..Len(stmt.elifs) |->
                       [meta |-> stmt.elifs[i].meta,
                        condition |-> expr_from_ir(stmt.elifs[i].condition),
                        body |-> block_from_ir_with_indent(stmt.elifs[i].body,
                                                           indent_level + 1)]],
          else_body |-> IF stmt.else_body.some
                        THEN Some(block_from_ir_with_indent(stmt.else_body.val,
                                                            indent_level + 1))
                        ELSE None]
    [] stmt.ir = "While" ->
         [kind |-> "While", meta |-> stmt.meta, condition |-> expr_from_ir(stmt.condition),
          body |-> block_from_ir_with_indent(stmt.body, indent_level + 1)]
    [] stmt.ir = "For" ->
         [kind |-> "For", meta |-> stmt.meta, target |-> expr_from_ir(stmt.target),
          iterable |-> expr_from_ir(stmt.iterable),
          body |-> block_from_ir_with_indent(stmt.body, indent_level + 1)]
    [] stmt.ir = "Match" ->
         [kind |-> "Match", meta |-> stmt.meta, subject |-> expr_from_ir(stmt.subject),
          cases |-> [meta |-> stmt.cases.meta, indent_level |-> indent_level + 1,
                     cases |-> [i \in 1..Len(stmt.cases.cases) |->
                                  [meta |-> stmt.cases.cases[i].meta,
                                   pattern |-> pattern_from_ir(stmt.cases.cases[i].pattern),
                                   body |-> block_from_ir_with_indent(
                                              stmt.cases.cases[i].body,
                                              indent_level + 2)]]]]
    [] stmt.ir = "Assign" ->
         [kind |-> "Assign", meta |-> stmt.meta, target |-> expr_from_ir(stmt.target),
          value |-> expr_from_ir(stmt.value)]
    [] stmt.ir = "Expr" ->
         [kind |-> "Expr", meta |-> stmt.meta, expr |-> expr_from_ir(stmt.expr)]
    [] stmt.ir = "Pass" -> [kind |-> "Pass", meta |-> stmt.meta]
    [] stmt.ir = "Empty" -> [kind |-> "Empty", meta |-> stmt.meta, source |-> stmt.source]

RECURSIVE ir_contains_match(_)
RECURSIVE block_has_match(_)
\* block_has_match that does not look into the block
block_match_not_searched(block) == FALSE

block_has_match(block) ==
  \E i \in 1..Len(block.statements) : ir_contains_match(block.statements[i])

ir_contains_match(stmt) ==
  CASE stmt.ir = "Match" -> TRUE
    [] stmt.ir = "If" ->
         \/ block_has_match(stmt.body)
         \/ \E i \in 1..Len(stmt.elifs) : block_has_match(stmt.elifs[i].body)
         \/ (stmt.else_body.some /\ block_has_match(stmt.else_body.val))
    [] stmt.ir = "While" -> block_has_match(stmt.body)
    [] stmt.ir = "For" -> block_has_match(stmt.body)
    [] OTHER -> FALSE

\* python_to_ir that leaves the raw tokens behind
python_to_ir_without_tokens(program) ==
  IrProgram(program.meta, program.indent_width, Map(stmt_to_ir, program.body), None,
            program.dirty)

python_to_ir(program) ==
  IrProgram(program.meta, program.indent_width, Map(stmt_to_ir, program.body),
            IF program.raw_tokens = <<>> THEN None
            ELSE Some(TokenStore(program.raw_tokens)),
            program.dirty)

ConvertError(message) == [message |-> message]

\* ir_to_python that copies the dirty flag of the IR as it is
ir_to_python_copying_dirty(ir, features) ==
  IF ~features.match_stmt /\ \E i \in 1..Len(ir.body) : ir_contains_match(ir.body[i])
  THEN [ok |-> FALSE, error |-> ConvertError("match is disabled")]
  ELSE [ok |-> TRUE,
        program |-> [Program_empty(ir.indent_width) EXCEPT
                       !.meta = ir.meta,
                       !.body = [i \in 1..Len(ir.body) |->
                                   stmt_from_ir_with_indent(ir.body[i], 0)],
                       !.raw_tokens = IF ir.token_store.some THEN ir.token_store.val.raw_tokens
                                      ELSE <<>>,
                       !.dirty = ir.dirty]]

\* Result<Program, ConvertError>
ir_to_python(ir, features) ==
  IF ~features.match_stmt /\ \E i \in 1..Len(ir.body) : ir_contains_match(ir.body[i])
  THEN [ok |-> FALSE, error |-> ConvertError("match is disabled")]
  ELSE LET raw_tokens == IF ir.token_store.some THEN ir.token_store.val.raw_tokens ELSE <<>> IN [ok |-> TRUE,
           program |-> [Program_empty(ir.indent_width) EXCEPT
                          !.meta = ir.meta,
                          !.body = [i \in 1..Len(ir.body) |->
                                      stmt_from_ir_with_indent(ir.body[i], 0)],
                          !.raw_tokens = raw_tokens,
                          !.dirty = ir.dirty \/ raw_tokens = <<>>]]

(* ------------------------------------------------------------------ *)
(* Commands of the application shell                                   *)
(* ------------------------------------------------------------------ *)
\* ParseError Display: "line {line}:{column} {message}"
ParseError_to_string(error) ==
  "line " \o ToString(error.span.start.line) \o ":" \o ToString(error.span.start.column)
    \o " " \o error.message

\* ConvertError Display: the message alone
ConvertError_to_string(error) == error.message

get_empty_ir == IrProgram(NodeMeta_default, 4, <<>>, None, TRUE)

\* Result<IrProgram, String>
parse_python_to_ir(src) ==
  Let(Program_parse(src, ParserConfig_default), LAMBDA r: IF ~r.ok THEN [ok |-> FALSE, error |-> ParseError_to_string(r.error)]
     ELSE [ok |-> TRUE, ir |-> python_to_ir(r.program)])

\* Result<String, String>
generate_python_from_ir(ir, render_mode) ==
  LET features == FeatureSet_from_version("Py310") IN
      Let(ir_to_python(ir, features), LAMBDA r: IF ~r.ok THEN [ok |-> FALSE, error |-> ConvertError_to_string(r.error)]
     ELSE [ok |-> TRUE, text |-> to_python(r.program, RenderConfig(render_mode, FALSE))])

(* ------------------------------------------------------------------ *)
(* Tree congruence of the round-trip tests: node metas and trivia are   *)
(* not compared, Grouped wrappers are looked through on either side     *)
(* ------------------------------------------------------------------ *)
literal_eq(left, right) ==
  CASE left.kind = "Number" /\ right.kind = "Number" -> left.raw = right.raw
    [] left.kind = "String" /\ right.kind = "String" -> left = right
    [] left.kind = "Bool" /\ right.kind = "Bool" -> left.value = right.value
    [] left.kind = "None" /\ right.kind = "None" -> TRUE
    [] OTHER -> FALSE

RECURSIVE expr_eq(_, _)
expr_vec_eq(left, right) ==
  Len(left) = Len(right) /\ \A i \in 1..Len(left) : expr_eq(left[i], right[i])

comp_fors_eq(left, right) ==
  /\ Len(left) = Len(right)
  /\ \A i \in 1..Len(left) :
       /\ expr_eq(left[i].target, right[i].target)
       /\ expr_eq(left[i].iter, right[i].iter)
       /\ expr_vec_eq(left[i].ifs, right[i].ifs)

expr_eq(left, right) ==
  IF left.kind = "Grouped" THEN expr_eq(left.expr, right)
  ELSE IF right.kind = "Grouped" THEN expr_eq(left, right.expr)
  ELSE IF left.kind # right.kind THEN FALSE
  ELSE CASE left.kind = "Identifier" -> left.name = right.name
         [] left.kind = "Literal" -> literal_eq(left.literal, right.literal)
         [] left.kind = "Binary" ->
              left.op = right.op /\ expr_eq(left.left, right.left)
                /\ expr_eq(left.right, right.right)
         [] left.kind = "Unary" -> left.op = right.op /\ expr_eq(left.expr, right.expr)
         [] left.kind = "BoolOp" -> left.op = right.op /\ expr_vec_eq(left.values, right.values)
         [] left.kind = "Compare" ->
              left.ops = right.ops /\ expr_eq(left.left, right.left)
                /\ expr_vec_eq(left.comparators, right.comparators)
         [] left.kind = "Lambda" -> left.params = right.params /\ expr_eq(left.body, right.body)
         [] left.kind = "IfExpr" ->
              expr_eq(left.body, right.body) /\ expr_eq(left.condition, right.condition)
                /\ expr_eq(left.else_body, right.else_body)
         [] left.kind = "Call" ->
              expr_eq(left.callee, right.callee) /\ expr_vec_eq(left.args, right.args)
         [] left.kind = "Tuple" -> expr_vec_eq(left.elements, right.elements)
         [] left.kind = "Attribute" ->
              left.attr = right.attr /\ expr_eq(left.value, right.value)
         [] left.kind = "Comprehension" ->
              left.variant = right.variant /\ expr_eq(left.element, right.element)
                /\ comp_fors_eq(left.fors, right.fors)

pattern_eq(left, right) ==
  /\ left.kind = right.kind
  /\ left.kind = "Identifier" => left.name = right.name
  /\ left.kind = "Literal" => literal_eq(left.literal, right.literal)

\* the same congruence lifted to statements and blocks (indent levels are not compared)
RECURSIVE stmt_eq(_, _)
stmt_vec_eq(left, right) ==
  Len(left) = Len(right) /\ \A i \in 1..Len(left) : stmt_eq(left[i], right[i])

block_eq(left, right) == stmt_vec_eq(left.statements, right.statements)

stmt_eq(left, right) ==
  IF left.kind # right.kind THEN FALSE
  ELSE CASE left.kind = "If" ->
              /\ expr_eq(left.condition, right.condition)
              /\ block_eq(left.body, right.body)
              /\ Len(left.elifs) = Len(right.elifs)
              /\ \A i \in 1..Len(left.elifs) :
                   /\ expr_eq(left.elifs[i].condition, right.elifs[i].condition)
                   /\ block_eq(left.elifs[i].body, right.elifs[i].body)
              /\ left.else_body.some = right.else_body.some
              /\ left.else_body.some => block_eq(left.else_body.val, right.else_body.val)
         [] left.kind = "While" ->
              expr_eq(left.condition, right.condition) /\ block_eq(left.body, right.body)
         [] left.kind = "For" ->
              /\ expr_eq(left.target, right.target)
              /\ expr_eq(left.iterable, right.iterable)
              /\ block_eq(left.body, right.body)
         [] left.kind = "Match" ->
              /\ expr_eq(left.subject, right.subject)
              /\ Len(left.cases.cases) = Len(right.cases.cases)
              /\ \A i \in 1..Len(left.cases.cases) :
                   /\ pattern_eq(left.cases.cases[i].pattern, right.cases.cases[i].pattern)
                   /\ block_eq(left.cases.cases[i].body, right.cases.cases[i].body)
         [] left.kind = "Assign" ->
              expr_eq(left.target, right.target) /\ expr_eq(left.value, right.value)
         [] left.kind = "Expr" -> expr_eq(left.expr, right.expr)
         [] OTHER -> TRUE

(* ------------------------------------------------------------------ *)
(* The text session: a source is typed line by line, parsed, rendered,  *)
(* re-parsed, and sent through the IR commands                          *)
(* ------------------------------------------------------------------ *)
Call(f, a, b, c) ==
  CASE f = "parse_expression_with_generator" -> parse_expression_with_generator(a, b, c)
    [] f = "parse_block" -> parse_block(a)
    [] f = "parse_stmt" -> parse_stmt(a)

VARIABLES source, typed, parsed, rendered, reparsed, ir, edits, converted, generated, expr, ops,
          lexer, inserter, attached,
          RUNNING_PID, runs, children, stop

\* the state of the run commands
run_vars == <<RUNNING_PID, runs, children, stop>>

\* the state of the text, IR, expression and scanning sessions
text_vars ==
  <<source, typed, parsed, rendered, reparsed, ir, edits, converted, generated, expr, ops,
    lexer, inserter, attached>>

vars == <<text_vars, run_vars>>

\* how many pieces a session types
MaxPieces == 2

\* how many times the editor changes an IR before it sends it back
MaxEdits == 2

\* how many operators a constructed expression holds
MaxOps == 2

\* an assignment with a grouped operand and a trailing comment
PieceAssign ==
  <<"a", " ", "=", " ", "(", "b", " ", "+", " ", "1", ")", " ", "*", " ", "2", " ", HASH,
    " ", "c", NL>>

\* a blank line
PieceBlank ==
  <<NL>>

\* the header of an if statement
PieceIf ==
  <<"i", "f", " ", "a", ":", NL>>

\* a block of one call statement, indented by two
PieceCall ==
  <<" ", " ", "f", "(", "a", ",", " ", SQUOTE, "x", SQUOTE, ")", NL>>

\* a nested match whose case block is indented by four more
PieceNested ==
  <<" ", " ", "m", "a", "t", "c", "h", " ", "b", ":", NL, " ", " ", " ", " ", " ", " ",
    "c", "a", "s", "e", " ", "_", ":", NL, " ", " ", " ", " ", " ", " ", " ", " ", "p",
    "a", "s", "s", NL>>

\* a match statement at the top level
PieceMatch ==
  <<"m", "a", "t", "c", "h", " ", "a", ":", NL, " ", " ", "c", "a", "s", "e", " ", "1",
    ":", NL, " ", " ", " ", " ", "p", "a", "s", "s", NL>>

Pieces == {PieceAssign, PieceBlank, PieceIf, PieceCall, PieceNested, PieceMatch}

\* the files an IR session opens
Files ==
  {<<>>, PieceAssign \o PieceBlank, PieceIf \o PieceCall, PieceIf \o PieceNested,
   PieceMatch \o PieceAssign}

Modes == {"Lossless", "Pretty"}

\* what the editor does to the IR it holds before sending it back
IrEdits == {"MarkDirty", "MarkClean", "DropTokenStore", "ClearTokens"}

UnaryOps == {"Neg", "Not"}

BinaryOps == {"Add", "Sub", "Mul", "Power"}

Ident(name) == [kind |-> "Identifier", meta |-> NodeMeta_default, name |-> name]

Number(raw) == [kind |-> "Literal", meta |-> NodeMeta_default, literal |-> LiteralNumber(raw)]

Leaves == {Ident(<<"a">>), Number(<<"1">>)}

\* the program property_expr_roundtrip builds around an expression
ExprProgram(e) ==
  Program(NodeMeta_default, 4,
          <<[kind |-> "Expr", meta |-> NodeMeta_default, expr |-> e]>>, <<>>, <<>>, TRUE)

\* the run_python invocations that may be in flight together; the child of
\* invocation i has the process id i
Runs == {1, 2}

TIMEOUT_SECS == 30

\* the readings of start.elapsed() that the watchdog can tell apart, in seconds
Instants == <<0, TIMEOUT_SECS, TIMEOUT_SECS + 1>>

\* no run_python and no stop_python was invoked
NoRuns ==
  /\ RUNNING_PID = None
  /\ runs = [i \in Runs |-> [pc |-> "idle", elapsed |-> 1, timed_out |-> FALSE,
                               killed |-> FALSE, result |-> None]]
  /\ children = [i \in Runs |-> [status |-> "none", signalled |-> FALSE, exited_at |-> 0,
                                   cause |-> ""]]
  /\ stop = [pc |-> "idle", pid |-> None, running |-> {}, report |-> ""]

NoResults ==
  /\ parsed = None /\ rendered = None /\ reparsed = None
  /\ ir = None /\ edits = 0 /\ converted = None /\ generated = None
  /\ expr = None /\ ops = 0
  /\ lexer = None /\ inserter = None /\ attached = None

TextInit == source = <<>> /\ typed = 0 /\ NoResults /\ NoRuns

IrInit == source \in Files /\ typed = 0 /\ NoResults /\ NoRuns

ExprInit == source = <<>> /\ typed = 0 /\ NoResults /\ NoRuns

\* the editor appends a piece of text; every earlier result is discarded
Type(piece) ==
  /\ typed < MaxPieces
  /\ source' = source \o piece
  /\ typed' = typed + 1
  /\ parsed' = None /\ rendered' = None /\ reparsed' = None
  /\ ir' = None /\ edits' = 0 /\ converted' = None /\ generated' = None
  /\ lexer' = None /\ inserter' = None /\ attached' = None
  /\ UNCHANGED <<run_vars, expr, ops>>

\* Program::parse(source, config)
Parse(match_stmt) ==
  /\ ~(parsed.some /\ parsed.config = ParserConfig(match_stmt))
  /\ parsed' = [some |-> TRUE, config |-> ParserConfig(match_stmt),
                result |-> Program_parse(source, ParserConfig(match_stmt))]
  /\ rendered' = None /\ reparsed' = None
  /\ ir' = None /\ edits' = 0 /\ converted' = None /\ generated' = None
  /\ UNCHANGED <<run_vars, lexer, inserter, attached, source, typed, expr, ops>>

\* the program a rendering is made of: the parsed one, the one converted from the
\* IR, or the one built around the constructed expression
Rendered(of) ==
  CASE of = "parsed" -> parsed.result.program
    [] of = "converted" -> converted.result.program
    [] of = "expr" -> ExprProgram(expr.val)

\* program.to_python(config)
ToPython(of, mode, reuse_token_ranges) ==
  /\ CASE of = "parsed" -> parsed.some /\ parsed.result.ok
       [] of = "converted" -> converted.some /\ converted.result.ok
       [] of = "expr" -> expr.some
  /\ rendered' = [some |-> TRUE, of |-> of,
                  config |-> RenderConfig(mode, reuse_token_ranges),
                  text |-> to_python(Rendered(of), RenderConfig(mode, reuse_token_ranges))]
  /\ reparsed' = None
  /\ UNCHANGED <<run_vars, lexer, inserter, attached, source, typed, parsed, ir, edits, converted, generated, expr, ops>>

\* Program::parse(rendered, default config), the second half of a round trip
Reparse ==
  /\ rendered.some /\ ~reparsed.some
  /\ reparsed' = [some |-> TRUE, result |-> Program_parse(rendered.text, ParserConfig_default)]
  /\ UNCHANGED <<run_vars, lexer, inserter, attached, source, typed, parsed, rendered, ir, edits, converted, generated, expr, ops>>

\* python_to_ir(&program) on the parsed program
PythonToIr ==
  /\ parsed.some /\ parsed.result.ok
  /\ ~(ir.some /\ ir.origin = "python_to_ir" /\ edits = 0)
  /\ ir' = [some |-> TRUE, origin |-> "python_to_ir",
            result |-> [ok |-> TRUE, ir |-> python_to_ir(parsed.result.program)]]
  /\ edits' = 0
  /\ rendered' = None /\ reparsed' = None /\ converted' = None /\ generated' = None
  /\ UNCHANGED <<run_vars, lexer, inserter, attached, source, typed, parsed, expr, ops>>

\* the command parse_python_to_ir(source)
ParsePythonToIr ==
  /\ ~(ir.some /\ ir.origin = "parse_python_to_ir" /\ edits = 0)
  /\ ir' = [some |-> TRUE, origin |-> "parse_python_to_ir",
            result |-> parse_python_to_ir(source)]
  /\ edits' = 0
  /\ rendered' = None /\ reparsed' = None /\ converted' = None /\ generated' = None
  /\ UNCHANGED <<run_vars, lexer, inserter, attached, source, typed, parsed, expr, ops>>

\* the command get_empty_ir()
GetEmptyIr ==
  /\ ~(ir.some /\ ir.origin = "get_empty_ir" /\ edits = 0)
  /\ ir' = [some |-> TRUE, origin |-> "get_empty_ir",
            result |-> [ok |-> TRUE, ir |-> get_empty_ir]]
  /\ edits' = 0
  /\ rendered' = None /\ reparsed' = None /\ converted' = None /\ generated' = None
  /\ UNCHANGED <<run_vars, lexer, inserter, attached, source, typed, parsed, expr, ops>>

\* the IR as the editor sends it back: IrProgram is deserialized from whatever the
\* editor holds, so its dirty flag and token store are the editor's to set
Edited(program, edit) ==
  CASE edit = "MarkDirty" -> [program EXCEPT !.dirty = TRUE]
    [] edit = "MarkClean" -> [program EXCEPT !.dirty = FALSE]
    [] edit = "DropTokenStore" -> [program EXCEPT !.token_store = None]
    [] edit = "ClearTokens" -> [program EXCEPT !.token_store = Some(TokenStore(<<>>))]

EditIr(edit) ==
  /\ ir.some /\ ir.result.ok
  /\ edits < MaxEdits
  /\ ir' = [ir EXCEPT !.result.ir = Edited(@, edit)]
  /\ edits' = edits + 1
  /\ rendered' = None /\ reparsed' = None /\ converted' = None /\ generated' = None
  /\ UNCHANGED <<run_vars, lexer, inserter, attached, source, typed, parsed, expr, ops>>

\* ir_to_python(&ir, &features)
IrToPython(match_stmt) ==
  /\ ir.some /\ ir.result.ok
  /\ converted' = [some |-> TRUE, features |-> [match_stmt |-> match_stmt],
                   result |-> ir_to_python(ir.result.ir, [match_stmt |-> match_stmt])]
  /\ rendered' = None /\ reparsed' = None /\ generated' = None
  /\ UNCHANGED <<run_vars, lexer, inserter, attached, source, typed, parsed, ir, edits, expr, ops>>

\* the command generate_python_from_ir(ir, render_mode)
GeneratePythonFromIr(mode) ==
  /\ ir.some /\ ir.result.ok
  /\ generated' = [some |-> TRUE, mode |-> mode,
                   result |-> generate_python_from_ir(ir.result.ir, mode)]
  /\ rendered' = None /\ reparsed' = None /\ converted' = None
  /\ UNCHANGED <<run_vars, lexer, inserter, attached, source, typed, parsed, ir, edits, expr, ops>>

\* generate_expr: a leaf
Leaf(leaf) ==
  /\ ~expr.some
  /\ expr' = Some(leaf)
  /\ UNCHANGED <<run_vars, lexer, inserter, attached, source, typed, parsed, rendered, reparsed, ir, edits, converted, generated, ops>>

\* generate_expr: the expression built so far becomes the operand of a unary operator
WrapUnary(op) ==
  /\ expr.some /\ ops < MaxOps
  /\ expr' = Some([kind |-> "Unary", meta |-> NodeMeta_default, op |-> op, expr |-> expr.val])
  /\ ops' = ops + 1
  /\ rendered' = None /\ reparsed' = None
  /\ UNCHANGED <<run_vars, lexer, inserter, attached, source, typed, parsed, ir, edits, converted, generated>>

\* generate_expr: ... or one operand of a binary operator, the other being a leaf
WrapBinary(op, leaf, on_left) ==
  /\ expr.some /\ ops < MaxOps
  /\ expr' = Some([kind |-> "Binary", meta |-> NodeMeta_default,
                   left |-> IF on_left THEN expr.val ELSE leaf, op |-> op,
                   right |-> IF on_left THEN leaf ELSE expr.val])
  /\ ops' = ops + 1
  /\ rendered' = None /\ reparsed' = None
  /\ UNCHANGED <<run_vars, lexer, inserter, attached, source, typed, parsed, ir, edits, converted, generated>>

\* generate_expr: ... or the argument of a call
WrapCall ==
  /\ expr.some /\ ops < MaxOps
  /\ expr' = Some([kind |-> "Call", meta |-> NodeMeta_default, callee |-> Ident(<<"f", "n">>),
                   args |-> <<expr.val>>, kwargs |-> <<>>])
  /\ ops' = ops + 1
  /\ rendered' = None /\ reparsed' = None
  /\ UNCHANGED <<run_vars, lexer, inserter, attached, source, typed, parsed, ir, edits, converted, generated>>

\* a text session: type, parse, render, parse again
Next ==
  \/ \E piece \in Pieces : Type(piece)
  \/ \E match_stmt \in BOOLEAN : Parse(match_stmt)
  \/ \E mode \in Modes, reuse_token_ranges \in BOOLEAN : ToPython("parsed", mode, reuse_token_ranges)
  \/ Reparse

Spec == TextInit /\ [][Next]_vars

\* an IR session over an opened file: to the IR, edit, and back
NextIr ==
  \/ \E match_stmt \in BOOLEAN : Parse(match_stmt)
  \/ PythonToIr
  \/ ParsePythonToIr
  \/ GetEmptyIr
  \/ \E edit \in IrEdits : EditIr(edit)
  \/ \E match_stmt \in BOOLEAN : IrToPython(match_stmt)
  \/ \E mode \in Modes, reuse_token_ranges \in BOOLEAN : ToPython("converted", mode, reuse_token_ranges)
  \/ \E mode \in Modes : GeneratePythonFromIr(mode)

SpecIr == IrInit /\ [][NextIr]_vars

\* property_expr_roundtrip over constructed expressions
NextExpr ==
  \/ \E leaf \in Leaves : Leaf(leaf)
  \/ \E op \in UnaryOps : WrapUnary(op)
  \/ \E op \in BinaryOps, leaf \in Leaves, on_left \in BOOLEAN : WrapBinary(op, leaf, on_left)
  \/ WrapCall
  \/ ToPython("expr", "Pretty", FALSE)
  \/ Reparse

SpecExpr == ExprInit /\ [][NextExpr]_vars

(* ------------------------------------------------------------------ *)
(* The parse session: lines are typed and the source is parsed          *)
(* ------------------------------------------------------------------ *)
\* a parenthesised name
LineGrouped ==
  <<"(", "a", ")", NL>>

\* a one-element tuple
LineSingleton ==
  <<"(", "a", ",", ")", NL>>

\* a two-element tuple
LinePair ==
  <<"(", "a", ",", " ", "b", ")", NL>>

\* a parenthesised generator
LineGenerator ==
  <<"(", "x", " ", "f", "o", "r", " ", "x", " ", "i", "n", " ", "x", "s", ")", NL>>

\* an empty pair of parentheses
LineEmptyParens ==
  <<"(", ")", NL>>

\* an if header without its condition
LineIfNoCondition ==
  <<"i", "f", " ", ":", NL>>

\* a pass statement indented by four
LinePass ==
  <<" ", " ", " ", " ", "p", "a", "s", "s", NL>>

\* an if header
LineIf ==
  <<"i", "f", " ", "a", ":", NL>>

\* a nested if indented by two whose body is indented by four more
LineNestedWide ==
  <<" ", " ", "i", "f", " ", "b", ":", NL, " ", " ", " ", " ", " ", " ", "p", "a", "s",
    "s", NL>>

\* an assignment whose string never closes
LineUnterminated ==
  <<"s", " ", "=", " ", SQUOTE, "a", "b", NL>>

\* a sum whose left operand is a call on an attribute
LineCallChain ==
  <<"a", ".", "b", "(", "c", ")", " ", "+", " ", "d", " ", "*", " ", "2", NL>>

\* an f-string with literal text and one expression slot
LineFString ==
  <<"f", SQUOTE, "n", "=", "{", "a", " ", "+", " ", "b", " ", "*", " ", "c", "}", SQUOTE,
    NL>>

\* an assignment that the end of input follows without a newline
LineNoNewline ==
  <<"x", " ", "=", " ", "1">>

\* a chain of two comparisons
LineCompare ==
  <<"a", " ", "<", " ", "b", " ", "!", "=", " ", "c", NL>>

\* a chain of the two-word comparisons
LineMembership ==
  <<"a", " ", "n", "o", "t", " ", "i", "n", " ", "b", " ", "i", "s", " ", "n", "o", "t",
    " ", "c", NL>>

Lines ==
  {PieceMatch, PieceBlank, LineFString, LineCompare, LineMembership, LineNoNewline,
   LineGrouped, LineSingleton, LinePair, LineGenerator, LineEmptyParens,
   LineIfNoCondition, LinePass, LineIf, LineNestedWide, LineUnterminated, LineCallChain}

NextParse ==
  \/ \E line \in Lines : Type(line)
  \/ Parse(TRUE)

SpecParse == TextInit /\ [][NextParse]_vars

(* ------------------------------------------------------------------ *)
(* The scanning session: the typed source is lexed round by round, the  *)
(* block structure is inserted token by token, and trivia is attached   *)
(* ------------------------------------------------------------------ *)
\* an if header
ScanIf ==
  <<"i", "f", " ", "a", ":", NL>>

\* an assignment indented by four, with a trailing comment
ScanBody ==
  <<" ", " ", " ", " ", "b", " ", "=", " ", "1", " ", HASH, " ", "c", NL>>

\* a name indented by eight
ScanDeep ==
  <<" ", " ", " ", " ", " ", " ", " ", " ", "c", NL>>

\* a name indented by one tab
ScanTab ==
  <<TAB, "c", NL>>

\* a name indented by two
ScanShallow ==
  <<" ", " ", "d", NL>>

\* a comment alone on a line, indented by six
ScanCommentLine ==
  <<" ", " ", " ", " ", " ", " ", HASH, " ", "n", NL>>

\* a line of three spaces
ScanSpaces ==
  <<" ", " ", " ", NL>>

\* a list that runs over two lines and holds a set
ScanBrackets ==
  <<"x", " ", "=", " ", "[", "1", ",", NL, " ", " ", "{", "2", "}", "]", NL>>

\* a closing parenthesis that nothing opened
ScanCloser ==
  <<")", NL>>

\* a parenthesis that stays open
ScanOpen ==
  <<"(", "a", NL>>

\* a name at the left margin
ScanTop ==
  <<"e", NL>>

ScanLines ==
  {PieceBlank, ScanIf, ScanBody, ScanDeep, ScanTab, ScanShallow, ScanCommentLine,
   ScanSpaces, ScanBrackets, ScanCloser, ScanOpen, ScanTop}

\* Lexer::new(source)
NewLexer ==
  /\ ~lexer.some
  /\ lexer' = [some |-> TRUE, done |-> FALSE,
                r |-> [ok |-> TRUE, more |-> TRUE, lx |-> Lexer_new(source)]]
  /\ UNCHANGED <<run_vars, source, typed, parsed, rendered, reparsed, ir, edits, converted,
                 generated, expr, ops, inserter, attached>>

\* one round of the loop of Lexer::lex
LexRound ==
  /\ lexer.some /\ lexer.r.more
  /\ lexer' = [lexer EXCEPT !.r = lex_round(lexer.r)]
  /\ UNCHANGED <<run_vars, source, typed, parsed, rendered, reparsed, ir, edits, converted,
                 generated, expr, ops, inserter, attached>>

\* the end of Lexer::lex once the loop has left without an error
LexEof ==
  /\ lexer.some /\ ~lexer.r.more /\ lexer.r.ok /\ ~lexer.done
  /\ lexer' = [some |-> TRUE, done |-> TRUE, r |-> lexer.r, lexed |-> LexedSource(lexer.r.lx)]
  /\ UNCHANGED <<run_vars, source, typed, parsed, rendered, reparsed, ir, edits, converted,
                 generated, expr, ops, inserter, attached>>

\* insert_indent_tokens(tokens) before its loop
NewInserter ==
  /\ lexer.some /\ lexer.done /\ ~inserter.some
  /\ inserter' = [some |-> TRUE, tokens |-> lexer.lexed.tokens, next |-> 1, st |-> IndentInit]
  /\ UNCHANGED <<run_vars, source, typed, parsed, rendered, reparsed, ir, edits, converted,
                 generated, expr, ops, lexer, attached>>

\* one iteration of the loop of insert_indent_tokens
InsertStep ==
  /\ inserter.some /\ inserter.next <= Len(inserter.tokens)
  /\ inserter' = [inserter EXCEPT !.st = indent_step(@, inserter.tokens[inserter.next]),
                                   !.next = @ + 1]
  /\ UNCHANGED <<run_vars, source, typed, parsed, rendered, reparsed, ir, edits, converted,
                 generated, expr, ops, lexer, attached>>

\* attach_trivia(insert_indent_tokens(tokens))
AttachTrivia ==
  /\ inserter.some /\ inserter.next > Len(inserter.tokens) /\ ~attached.some
  /\ attached' = [some |-> TRUE, raw_tokens |-> inserter.st.output,
                   tokens |-> attach_trivia(inserter.st.output)]
  /\ UNCHANGED <<run_vars, source, typed, parsed, rendered, reparsed, ir, edits, converted,
                 generated, expr, ops, lexer, inserter>>

NextScan ==
  \/ \E line \in ScanLines : Type(line)
  \/ NewLexer
  \/ LexRound
  \/ LexEof
  \/ NewInserter
  \/ InsertStep
  \/ AttachTrivia

SpecScan == TextInit /\ [][NextScan]_vars

(* ------------------------------------------------------------------ *)
(* The run commands: run_python invocations, their child processes and  *)
(* stop_python, each thread taking one step at a time                   *)
(* ------------------------------------------------------------------ *)
RunInit == source = <<>> /\ typed = 0 /\ NoResults /\ NoRuns

\* the children that have been spawned and have not exited
Running == {i \in Runs : children[i].status = "running"}

\* kill_process(id): the signal reaches the process if it still runs
kill_process(procs, id) ==
  IF procs[id].status = "running" THEN [procs EXCEPT ![id].signalled = TRUE] ELSE procs

\* run_python up to Command::spawn: the path, the run file or the spawn may fail,
\* and `?` returns the error
Spawn(i, failed) ==
  /\ runs[i].pc = "idle"
  /\ IF failed
     THEN /\ runs' = [runs EXCEPT ![i].pc = "failed"]
          /\ UNCHANGED children
     ELSE /\ runs' = [runs EXCEPT ![i].pc = "spawned"]
          /\ children' = [children EXCEPT ![i].status = "running"]
  /\ UNCHANGED <<text_vars, RUNNING_PID, stop>>

\* *RUNNING_PID.lock() = Some(child_id); start = Instant::now()
Register(i) ==
  /\ runs[i].pc = "spawned"
  /\ RUNNING_PID' = Some(i)
  /\ runs' = [runs EXCEPT ![i].pc = "try_wait"]
  /\ UNCHANGED <<text_vars, children, stop>>

\* the watchdog's child.try_wait()
TryWait(i, failed) ==
  /\ runs[i].pc = "try_wait"
  /\ runs' = IF failed THEN [runs EXCEPT ![i].pc = "failed"]
             ELSE IF children[i].status = "exited"
             THEN [runs EXCEPT ![i].pc = "wait", ![i].timed_out = FALSE]
             ELSE [runs EXCEPT ![i].pc = "elapsed"]
  /\ UNCHANGED <<text_vars, RUNNING_PID, children, stop>>

\* the watchdog's `start.elapsed() > TIMEOUT_SECS`: kill and leave the loop, or
\* sleep and poll again
CheckElapsed(i) ==
  /\ runs[i].pc = "elapsed"
  /\ IF Instants[runs[i].elapsed] > TIMEOUT_SECS
     THEN /\ children' = kill_process(children, i)
          /\ runs' = [runs EXCEPT ![i].pc = "wait", ![i].timed_out = TRUE,
                                   ![i].killed = TRUE]
     ELSE /\ runs' = [runs EXCEPT ![i].pc = "try_wait"]
          /\ UNCHANGED children
  /\ UNCHANGED <<text_vars, RUNNING_PID, stop>>

\* child.wait(): returns once the child has exited, or fails
Wait(i, failed) ==
  /\ runs[i].pc = "wait"
  /\ failed \/ children[i].status = "exited"
  /\ runs' = [runs EXCEPT ![i].pc = IF failed THEN "failed" ELSE "clear"]
  /\ UNCHANGED <<text_vars, RUNNING_PID, children, stop>>

\* *RUNNING_PID.lock() = None
Clear(i) ==
  /\ runs[i].pc = "clear"
  /\ RUNNING_PID' = None
  /\ runs' = [runs EXCEPT ![i].pc = "finish"]
  /\ UNCHANGED <<text_vars, children, stop>>

\* the rest of run_python: the timeout notice on stderr and Ok(RunResult)
Return(i) ==
  /\ runs[i].pc = "finish"
  /\ runs' = [runs EXCEPT ![i].pc = "returned",
                           ![i].result = Some([timed_out |-> runs[i].timed_out,
                                               timeout_notice |-> runs[i].timed_out])]
  /\ UNCHANGED <<text_vars, RUNNING_PID, children, stop>>

\* time passes for a watchdog that has not left its loop
Elapse(i) ==
  /\ runs[i].pc \in {"try_wait", "elapsed"}
  /\ runs[i].elapsed < Len(Instants)
  /\ runs' = [runs EXCEPT ![i].elapsed = @ + 1]
  /\ UNCHANGED <<text_vars, RUNNING_PID, children, stop>>

\* the child process ends: by itself, or by the signal it was sent
Exit(i) ==
  /\ children[i].status = "running"
  /\ children' = [children EXCEPT ![i].status = "exited",
                                   ![i].exited_at = Instants[runs[i].elapsed],
                                   ![i].cause = IF children[i].signalled THEN "signal"
                                                ELSE "own"]
  /\ UNCHANGED <<text_vars, RUNNING_PID, runs, stop>>

\* stop_python: RUNNING_PID.lock().take(); running keeps which children ran then
StopTake ==
  /\ stop.pc = "idle"
  /\ stop' = [pc |-> "taken", pid |-> RUNNING_PID, running |-> Running, report |-> ""]
  /\ RUNNING_PID' = None
  /\ UNCHANGED <<text_vars, runs, children>>

\* stop_python: kill_process(id) and the message returned
StopKill ==
  /\ stop.pc = "taken"
  /\ IF stop.pid.some
     THEN /\ children' = kill_process(children, stop.pid.val)
          /\ stop' = [stop EXCEPT !.pc = "idle", !.report = "stopped"]
     ELSE /\ stop' = [stop EXCEPT !.pc = "idle", !.report = "nothing running"]
          /\ UNCHANGED children
  /\ UNCHANGED <<text_vars, RUNNING_PID, runs>>

\* the steps of run_python that do not fail
RunStep(i) ==
  \/ Spawn(i, FALSE)
  \/ Register(i)
  \/ TryWait(i, FALSE)
  \/ CheckElapsed(i)
  \/ Wait(i, FALSE)
  \/ Clear(i)
  \/ Return(i)

NextRun ==
  \/ \E i \in Runs, failed \in BOOLEAN : Spawn(i, failed)
  \/ \E i \in Runs : Register(i)
  \/ \E i \in Runs, failed \in BOOLEAN : TryWait(i, failed)
  \/ \E i \in Runs : CheckElapsed(i)
  \/ \E i \in Runs, failed \in BOOLEAN : Wait(i, failed)
  \/ \E i \in Runs : Clear(i)
  \/ \E i \in Runs : Return(i)
  \/ \E i \in Runs : Elapse(i)
  \/ \E i \in Runs : Exit(i)
  \/ StopTake
  \/ StopKill

SpecRun == RunInit /\ [][NextRun]_vars

\* one run_python invocation, its child, and stop_python
NextRunOnce ==
  \/ \E failed \in BOOLEAN : Spawn(1, failed)
  \/ Register(1)
  \/ \E failed \in BOOLEAN : TryWait(1, failed)
  \/ CheckElapsed(1)
  \/ \E failed \in BOOLEAN : Wait(1, failed)
  \/ Clear(1)
  \/ Return(1)
  \/ Elapse(1)
  \/ Exit(1)
  \/ StopTake
  \/ StopKill

\* every thread keeps running, time keeps passing, and a child that was sent the
\* signal ends
SpecRunOnce ==
  /\ RunInit /\ [][NextRunOnce]_vars
  /\ WF_vars(RunStep(1))
  /\ WF_vars(Elapse(1))
  /\ WF_vars(children[1].signalled /\ Exit(1))
  /\ WF_vars(StopKill)

(* ------------------------------------------------------------------ *)
(* Properties                                                          *)
(* ------------------------------------------------------------------ *)
ParsedOk == parsed.some /\ parsed.result.ok

\* C1: whenever Program::parse accepts the source, the program is not dirty, the
\* raw texts of its raw tokens concatenated are the source, and the Lossless
\* rendering of the program is the source, character for character
C1_LosslessLaw ==
  ParsedOk =>
    /\ ~parsed.result.program.dirty
    /\ render_lossless(parsed.result.program.raw_tokens) = source
    /\ (rendered.some /\ rendered.of = "parsed" /\ rendered.config.mode = "Lossless")
         => rendered.text = source

\* C1 happens: a source with a comment, grouping and a match block was parsed and
\* rendered in Lossless mode
C1_Witness ==
  /\ ParsedOk /\ source = PieceAssign \o PieceMatch
  /\ rendered.some /\ rendered.of = "parsed" /\ rendered.config.mode = "Lossless"

PrettyRoundTripDone ==
  /\ ParsedOk /\ reparsed.some
  /\ rendered.some /\ rendered.of = "parsed" /\ rendered.config = RenderConfig("Pretty", FALSE)

\* C2: for every source that parses, parsing its Pretty rendering (made without
\* token ranges) succeeds and gives a program with as many statements, equal to
\* the first under the congruence that ignores metas and trivia and unwraps
\* Grouped nodes
C2_PrettyRoundTrip ==
  PrettyRoundTripDone =>
    /\ reparsed.result.ok
    /\ Len(reparsed.result.program.body) = Len(parsed.result.program.body)
    /\ stmt_vec_eq(parsed.result.program.body, reparsed.result.program.body)

\* the IR in hand is the one a command returned, not yet changed by the editor
IrUnmodified == ir.some /\ ir.result.ok /\ edits = 0

\* C3: for every source parse_python_to_ir accepts, generate_python_from_ir on the
\* unmodified IR in Lossless mode succeeds and returns the source itself
C3_LosslessThroughIr ==
  (IrUnmodified /\ ir.origin = "parse_python_to_ir"
     /\ generated.some /\ generated.mode = "Lossless")
    => generated.result.ok /\ generated.result.text = source

\* C3 happens: the IR of a commented assignment followed by a match went back
\* to text in Lossless mode
C3_Witness ==
  /\ IrUnmodified /\ ir.origin = "parse_python_to_ir"
  /\ source = PieceMatch \o PieceAssign
  /\ generated.some /\ generated.mode = "Lossless"

\* Program::to_python takes the raw-token path
TakesRawTokens(program, config) ==
  config.mode = "Lossless" /\ ~program.dirty /\ program.raw_tokens # <<>>

\* C4: Program::to_python returns the raw texts of raw_tokens concatenated exactly
\* when the mode is Lossless, the program is not dirty and raw_tokens is not
\* empty, and the pretty rendering of the tree in every other case
C4_RenderModeSelection ==
  rendered.some =>
    IF TakesRawTokens(Rendered(rendered.of), rendered.config)
    THEN rendered.text = render_lossless(Rendered(rendered.of).raw_tokens)
    ELSE rendered.text = render_pretty(Rendered(rendered.of), rendered.config)

\* C4 happens: a dirty program that still holds raw tokens was rendered in
\* Lossless mode, and the text is not that of its raw tokens
C4_Witness ==
  /\ rendered.some /\ rendered.of = "converted" /\ rendered.config.mode = "Lossless"
  /\ converted.result.program.dirty
  /\ converted.result.program.raw_tokens # <<>>
  /\ rendered.text # render_lossless(converted.result.program.raw_tokens)

\* python_to_ir of the parsed program went through ir_to_python with match allowed
IrIdentityDone ==
  /\ ParsedOk /\ IrUnmodified /\ ir.origin = "python_to_ir"
  /\ converted.some /\ converted.features.match_stmt

\* C5 as claimed: ir_to_python(python_to_ir(P)) is P again but for the dirty flag
C5_IrIdentity ==
  IrIdentityDone =>
    /\ converted.result.ok
    /\ [converted.result.program EXCEPT !.dirty = parsed.result.program.dirty]
         = parsed.result.program

\* a statement with the indent level of every block set to its nesting depth
RECURSIVE AtDepth(_, _)
BlockAtDepth(block, depth) ==
  [block EXCEPT !.indent_level = depth,
                !.statements = [i \in 1..Len(@) |-> AtDepth(@[i], depth)]]

AtDepth(stmt, depth) ==
  CASE stmt.kind = "If" ->
         [stmt EXCEPT !.body = BlockAtDepth(@, depth + 1),
                      !.elifs = [i \in 1..Len(@) |->
                                   [@[i] EXCEPT !.body = BlockAtDepth(@, depth + 1)]],
                      !.else_body = IF @.some THEN Some(BlockAtDepth(@.val, depth + 1))
                                    ELSE @]
    [] stmt.kind \in {"While", "For"} -> [stmt EXCEPT !.body = BlockAtDepth(@, depth + 1)]
    [] stmt.kind = "Match" ->
         [stmt EXCEPT !.cases.indent_level = depth + 1,
                      !.cases.cases = [i \in 1..Len(@) |->
                                         [@[i] EXCEPT !.body = BlockAtDepth(@, depth + 2)]]]
    [] OTHER -> stmt

\* C5 amended: ir_to_python(python_to_ir(P)) with match allowed succeeds and keeps
\* P's meta, indent_width, raw_tokens and dirty flag and every node of the body;
\* its tokens are empty, and the indent level of every block is its nesting depth
C5_IrIdentityAmended ==
  IrIdentityDone =>
    /\ converted.result.ok
    /\ converted.result.program.meta = parsed.result.program.meta
    /\ converted.result.program.indent_width = parsed.result.program.indent_width
    /\ converted.result.program.raw_tokens = parsed.result.program.raw_tokens
    /\ converted.result.program.dirty = parsed.result.program.dirty
    /\ converted.result.program.tokens = <<>>
    /\ converted.result.program.body
         = [i \in 1..Len(parsed.result.program.body) |->
              AtDepth(parsed.result.program.body[i], 0)]

\* C5 happens: a program whose inner blocks are indented by more than one width
\* went to the IR and back, and its body came back with other indent levels
C5_Witness ==
  /\ IrIdentityDone /\ source = PieceIf \o PieceNested
  /\ converted.result.program.body # parsed.result.program.body

\* the IR has no token store or one that holds no token
StoreEmpty(program) ==
  IF program.token_store.some THEN program.token_store.val.raw_tokens = <<>> ELSE TRUE

\* C6: the program ir_to_python returns is dirty exactly when the IR is dirty or
\* its token store is absent or empty, and holds the tokens of the store when
\* there is one; rendered in Lossless mode, a program from a dirty or storeless
\* IR gives the pretty rendering
C6_DirtyFromIr ==
  (ir.some /\ ir.result.ok /\ converted.some /\ converted.result.ok) =>
    /\ converted.result.program.dirty = (ir.result.ir.dirty \/ StoreEmpty(ir.result.ir))
    /\ ir.result.ir.token_store.some
         => converted.result.program.raw_tokens = ir.result.ir.token_store.val.raw_tokens
    /\ (rendered.some /\ rendered.of = "converted" /\ rendered.config.mode = "Lossless"
          /\ (ir.result.ir.dirty \/ StoreEmpty(ir.result.ir)))
         => rendered.text = render_pretty(converted.result.program, rendered.config)

\* C6 happens: an IR marked clean by the editor, its token store emptied, was
\* converted and rendered in Lossless mode
C6_Witness ==
  /\ ir.some /\ ir.result.ok /\ converted.some /\ converted.result.ok
  /\ ~ir.result.ir.dirty /\ ir.result.ir.token_store.some
  /\ ir.result.ir.token_store.val.raw_tokens = <<>>
  /\ source = PieceIf \o PieceCall
  /\ rendered.some /\ rendered.of = "converted" /\ rendered.config.mode = "Lossless"

\* where the lexer finds the keyword `match`
MatchKeywords(tokens) == {i \in 1..Len(tokens) : is_keyword(tokens[i].kind, "Match")}

FirstMatchKeyword(tokens) ==
  tokens[CHOOSE i \in MatchKeywords(tokens) : \A j \in MatchKeywords(tokens) : i <= j]

\* well-formed sources that hold a match statement, at the top level or nested
MatchSources ==
  {PieceMatch, PieceIf \o PieceNested, PieceMatch \o PieceAssign, PieceAssign \o PieceMatch,
   PieceBlank \o PieceMatch, PieceMatch \o PieceMatch}

\* C7: with match_stmt off, a source that is well formed with it on and holds a
\* match statement fails to parse: no program, one ParseError "match is disabled"
\* whose span is that of the first `match` keyword token (line 1, column 1 when
\* the source opens with it); with match_stmt on, the well-formed match sources parse
C7_MatchGateOnParse ==
  parsed.some =>
    /\ (~parsed.config.features.match_stmt
          /\ Program_parse(source, ParserConfig(TRUE)).ok
          /\ MatchKeywords(lex(source).tokens) # {})
         => /\ ~parsed.result.ok /\ "program" \notin DOMAIN parsed.result
            /\ parsed.result.error = ParseError("match is disabled",
                                                FirstMatchKeyword(lex(source).tokens).span)
            /\ (source # <<>> /\ Head(source) = "m")
                 => (parsed.result.error.span.start.line = 1
                     /\ parsed.result.error.span.start.column = 1)
    /\ (parsed.config.features.match_stmt /\ source \in MatchSources) => parsed.result.ok

\* C7 happens: a match nested in an if block was refused on the second line
C7_Witness ==
  /\ parsed.some /\ ~parsed.config.features.match_stmt
  /\ source = PieceIf \o PieceNested
  /\ ~parsed.result.ok /\ parsed.result.error.span.start.line = 2

\* the IR in hand holds a match statement: it was made from a source with one
IrHoldsMatch ==
  ir.origin # "get_empty_ir" /\ MatchKeywords(lex(source).tokens) # {}

\* C8: ir_to_python fails exactly when match_stmt is off and the IR holds a match
\* statement at any depth, and then returns ConvertError("match is disabled") and
\* no program
C8_MatchGateOnConvert ==
  (ir.some /\ ir.result.ok /\ converted.some) =>
    /\ ~converted.result.ok <=> (~converted.features.match_stmt /\ IrHoldsMatch)
    /\ ~converted.result.ok
         => converted.result = [ok |-> FALSE, error |-> ConvertError("match is disabled")]

\* C8 happens: an IR whose match statement lies inside an if block was refused
C8_Witness ==
  /\ ir.some /\ ir.result.ok /\ converted.some /\ ~converted.features.match_stmt
  /\ source = PieceIf \o PieceNested
  /\ ~converted.result.ok

\* a constructed expression was rendered and the rendering parsed
ExprRoundTripDone ==
  /\ expr.some /\ rendered.some /\ rendered.of = "expr" /\ reparsed.some

\* the rendering parsed to one expression statement congruent to the expression
ParsedBackAs(e) ==
  /\ reparsed.result.ok
  /\ Len(reparsed.result.program.body) = 1
  /\ reparsed.result.program.body[1].kind = "Expr"
  /\ expr_eq(e, reparsed.result.program.body[1].expr)

\* C9: the pretty rendering of a dirty, token-less program holding one constructed
\* expression (identifiers, numbers, unary and binary operators, calls) parses to
\* exactly one expression statement congruent to that expression
C9_ConstructedRoundTrip ==
  ExprRoundTripDone => ParsedBackAs(expr.val)

\* the operators that group to the right (BinaryOpInfo.associativity)
RightAssociative(op) == op = "Power"

\* an operand as the claim renders it: in parentheses exactly when it is a binary
\* expression of lower precedence than the bound passed down
Operand(child, bound) ==
  IF child.kind = "Binary" /\ binary_precedence(child.op) < bound
  THEN <<"(">> \o render_expr(child, 0) \o <<")">>
  ELSE render_expr(child, 0)

\* a binary expression as the claim renders it: its own precedence goes to the
\* associative side, one more to the other side
ByAssociativity(e) ==
  Operand(e.left, IF RightAssociative(e.op) THEN binary_precedence(e.op) + 1
                  ELSE binary_precedence(e.op))
    \o <<" ">> \o BinaryOpText(e.op) \o <<" ">>
    \o Operand(e.right, IF RightAssociative(e.op) THEN binary_precedence(e.op)
                        ELSE binary_precedence(e.op) + 1)

\* a binary expression whose operands are leaves, calls or binary expressions
BinaryOverBinary ==
  /\ expr.some /\ expr.val.kind = "Binary"
  /\ expr.val.left.kind # "Unary" /\ expr.val.right.kind # "Unary"

\* C10: a binary expression is rendered with an operand in parentheses exactly
\* when the operand's precedence is lower than the one passed down, the
\* operator's own on its associative side and one more on the other side; and
\* what is rendered parses back to the nesting it was rendered from
C10_ParenthesesByAssociativity ==
  (BinaryOverBinary /\ rendered.some /\ rendered.of = "expr") =>
    /\ rendered.text = ByAssociativity(expr.val) \o <<NL>>
    /\ reparsed.some => ParsedBackAs(expr.val)

\* the source is the one line and it was parsed
ParsedLine(line) == parsed.some /\ source = line

\* the expression of the one expression statement the source parsed to
OnlyExpr == parsed.result.program.body[1].expr

\* Program::parse accepted the source as one expression statement
OneExprStmt ==
  /\ parsed.result.ok
  /\ Len(parsed.result.program.body) = 1
  /\ parsed.result.program.body[1].kind = "Expr"

IsName(e, name) == e.kind = "Identifier" /\ e.name = name

\* a generator read through the Grouped node its parentheses make
Ungrouped(e) == IF e.kind = "Grouped" THEN e.expr ELSE e

\* C11: `(a)` parses to a Grouped expression around a, `(a,)` to a Tuple of the
\* one element a, `(a, b)` to the Tuple [a, b], `(x for x in xs)` to a generator
\* with element x and the one clause (x, xs, no guards), and `()` parses, to a
\* Tuple without elements
C11_ParenDisambiguation ==
  /\ ParsedLine(LineGrouped) =>
       /\ OneExprStmt
       /\ OnlyExpr.kind = "Grouped" /\ IsName(OnlyExpr.expr, <<"a">>)
  /\ ParsedLine(LineSingleton) =>
       /\ OneExprStmt
       /\ OnlyExpr.kind = "Tuple" /\ Len(OnlyExpr.elements) = 1
       /\ IsName(OnlyExpr.elements[1], <<"a">>)
  /\ ParsedLine(LinePair) =>
       /\ OneExprStmt
       /\ OnlyExpr.kind = "Tuple" /\ Len(OnlyExpr.elements) = 2
       /\ IsName(OnlyExpr.elements[1], <<"a">>) /\ IsName(OnlyExpr.elements[2], <<"b">>)
  /\ ParsedLine(LineGenerator) =>
       /\ OneExprStmt
       /\ Ungrouped(OnlyExpr).kind = "Comprehension"
       /\ Ungrouped(OnlyExpr).variant = "Generator"
       /\ IsName(Ungrouped(OnlyExpr).element, <<"x">>)
       /\ Len(Ungrouped(OnlyExpr).fors) = 1
       /\ IsName(Ungrouped(OnlyExpr).fors[1].target, <<"x">>)
       /\ IsName(Ungrouped(OnlyExpr).fors[1].iter, <<"x", "s">>)
       /\ Ungrouped(OnlyExpr).fors[1].ifs = <<>>
  /\ ParsedLine(LineEmptyParens) =>
       /\ OneExprStmt
       /\ OnlyExpr.kind = "Tuple" /\ OnlyExpr.elements = <<>>

\* the tokens Program::parse hands to the parser for a source that lexes
ParserTokens(src) == attach_trivia(insert_indent_tokens(lex(src).tokens))

\* the source lexes, and the parser rejected its tokens
ParserRejected == parsed.some /\ lex(source).ok /\ ~parsed.result.ok

\* the first token of the given kind
FirstOf(tokens, tag) ==
  tokens[CHOOSE i \in 1..Len(tokens) :
           /\ tokens[i].kind.tag = tag
           /\ \A j \in 1..(i - 1) : tokens[j].kind.tag # tag]

LineColumnMessage(text, message) ==
  \E line \in 0..(Len(source) + 1), column \in 0..(Len(source) + 1) :
    text = "line " \o ToString(line) \o ":" \o ToString(column) \o " " \o message

\* C13: the Display output of a ParseError and the Display output of a
\* ConvertError both read "line <L>:<C> <message>"
C13_ErrorsStringifyWithLine ==
  /\ (parsed.some /\ ~parsed.result.ok) =>
       LineColumnMessage(ParseError_to_string(parsed.result.error),
                         parsed.result.error.message)
  /\ (converted.some /\ ~converted.result.ok) =>
       LineColumnMessage(ConvertError_to_string(converted.result.error),
                         converted.result.error.message)

\* where the quote characters of the source are (indices from 1)
QuoteIndices == {i \in 1..Len(source) : source[i] \in {SQUOTE, DQUOTE}}

\* the position of the character at index i, counted as the lexer counts: lines
\* and columns from 1, offsets from 0
PositionOfIndex(i) ==
  LET newlines == {j \in 1..(i - 1) : source[j] = NL}
      line_start == IF newlines = {} THEN 0
                    ELSE CHOOSE j \in newlines : \A k \in newlines : k <= j
  IN Position(1 + Cardinality(newlines), i - line_start, i - 1)

\* C14: a string literal whose opening quote has no closing quote before the end
\* of the input makes lexing fail with "unterminated string", and the error's
\* span is at the position of the opening quote
C14_UnterminatedAtOpenQuote ==
  (parsed.some /\ Cardinality(QuoteIndices) = 1) =>
    /\ ~parsed.result.ok
    /\ parsed.result.error.message = "unterminated string"
    /\ \A i \in QuoteIndices : parsed.result.error.span.start = PositionOfIndex(i)

\* where the lines of a text end
LineEnds(text) == {i \in 1..Len(text) : text[i] = NL}

\* the ends of the blank lines of a text: nothing but spaces and tabs before the
\* line break
BlankLineEnds(text) ==
  {e \in LineEnds(text) :
     \A k \in 1..(e - 1) :
       (\A j \in k..(e - 1) : text[j] # NL) => text[k] \in Blanks}

\* how many consecutive blank lines end at the line break e
BlankRunAt(text, e) ==
  Cardinality({j \in LineEnds(text) :
                 /\ j <= e
                 /\ \A k \in LineEnds(text) : (j <= k /\ k <= e) => k \in BlankLineEnds(text)})

\* the text holds n consecutive blank lines
HasBlankRun(text, n) == \E e \in LineEnds(text) : BlankRunAt(text, e) >= n

PrettyRendered ==
  /\ ParsedOk /\ rendered.some /\ rendered.of = "parsed"
  /\ rendered.config.mode = "Pretty"

\* C15: the Pretty rendering of a parsed source, with or without token ranges,
\* holds no longer run of consecutive blank lines than the source does, and no
\* more blank lines than the source
C15_PrettyInventsNoBlankLines ==
  PrettyRendered =>
    /\ \A n \in 1..Len(rendered.text) :
         HasBlankRun(rendered.text, n) => HasBlankRun(source, n)
    /\ Cardinality(BlankLineEnds(rendered.text)) <= Cardinality(BlankLineEnds(source))

\* the child nodes of a node of a parsed program, in source order: of the program,
\* a statement, a block, a case block, a case, an elif, an expression (the
\* expressions of its slots for an f-string), a comprehension clause or a pattern
Children(n) ==
  IF "tokens" \in DOMAIN n THEN n.body
  ELSE IF "statements" \in DOMAIN n THEN n.statements
  ELSE IF "indent_level" \in DOMAIN n THEN n.cases
  ELSE IF "pattern" \in DOMAIN n THEN <<n.pattern, n.body>>
  ELSE IF "iter" \in DOMAIN n THEN <<n.target, n.iter>> \o n.ifs
  ELSE IF "kind" \notin DOMAIN n THEN <<n.condition, n.body>>
  ELSE CASE n.kind = "If" ->
              <<n.condition, n.body>> \o n.elifs
                \o (IF n.else_body.some THEN <<n.else_body.val>> ELSE <<>>)
         [] n.kind = "While" -> <<n.condition, n.body>>
         [] n.kind = "For" -> <<n.target, n.iterable, n.body>>
         [] n.kind = "Match" -> <<n.subject, n.cases>>
         [] n.kind = "Assign" -> <<n.target, n.value>>
         [] n.kind = "Expr" -> <<n.expr>>
         [] n.kind = "Binary" -> <<n.left, n.right>>
         [] n.kind = "Unary" -> <<n.expr>>
         [] n.kind = "BoolOp" -> n.values
         [] n.kind = "Compare" -> <<n.left>> \o n.comparators
         [] n.kind = "Lambda" -> <<n.body>>
         [] n.kind = "IfExpr" -> <<n.body, n.condition, n.else_body>>
         [] n.kind = "Call" ->
              <<n.callee>> \o n.args \o [i \in 1..Len(n.kwargs) |-> n.kwargs[i].value]
         [] n.kind = "Tuple" -> n.elements
         [] n.kind = "Attribute" -> <<n.value>>
         [] n.kind = "Grouped" -> <<n.expr>>
         [] n.kind = "Comprehension" -> <<n.element>> \o n.fors
         [] n.kind = "FString" ->
              LET slots == SelectSeq(n.parts, LAMBDA p : p.part = "Expr")
              IN [i \in 1..Len(slots) |-> slots[i].expr]
         [] OTHER -> <<>>

\* a node and all the nodes below it, parents before children
RECURSIVE AllNodes(_)
RECURSIVE AllNodesOf(_)
AllNodesOf(nodes) ==
  IF nodes = <<>> THEN <<>> ELSE AllNodes(Head(nodes)) \o AllNodesOf(Tail(nodes))

AllNodes(n) == <<n>> \o AllNodesOf(Children(n))

\* the nodes of the parsed program, the program node first
ParsedNodes == AllNodes(parsed.result.program)

SpanWithin(inner, outer) ==
  outer.start.offset <= inner.start.offset /\ inner.end.offset <= outer.end.offset

\* the span of every child lies within the node's span, and the children follow
\* one another in the source without overlapping
CoversChildren(n) ==
  \A j \in 1..Len(Children(n)) :
    /\ SpanWithin(Children(n)[j].meta.span, n.meta.span)
    /\ j < Len(Children(n)) =>
         Children(n)[j].meta.span.end.offset <= Children(n)[j + 1].meta.span.start.offset

\* C16: the span of every node the parser produces contains the span of each of
\* its children, and the children's spans are in source order and do not overlap
C16_SpanContainment ==
  ParsedOk => \A i \in 1..Len(ParsedNodes) : CoversChildren(ParsedNodes[i])

\* a token range that runs forwards between two tokens of the list
ValidTokenRange(range, tokens) ==
  /\ range.start <= range.end
  /\ range.start < Len(tokens) /\ range.end < Len(tokens)

RECURSIVE BlockLevels(_, _)
RECURSIVE BlockLevelsOf(_, _)
BlockLevelsOf(nodes, enclosing) ==
  IF nodes = <<>> THEN <<>>
  ELSE BlockLevels(Head(nodes), enclosing) \o BlockLevelsOf(Tail(nodes), enclosing)

BlockLevels(n, enclosing) ==
  IF "indent_level" \in DOMAIN n
  THEN <<[enclosing |-> enclosing, level |-> n.indent_level]>>
         \o BlockLevelsOf(Children(n), n.indent_level)
  ELSE BlockLevelsOf(Children(n), enclosing)

\* the blocks of the parsed program, the top level counting as level 0
ParsedBlocks == BlockLevels(parsed.result.program, 0)

\* C18: every block the parser produces has an indent level of at least 1 that is
\* strictly greater than the level of the block enclosing it
C18_IndentLevelsIncrease ==
  ParsedOk =>
    \A i \in 1..Len(ParsedBlocks) :
      ParsedBlocks[i].level >= 1 /\ ParsedBlocks[i].level > ParsedBlocks[i].enclosing

\* C18 happens: a program with a block inside a block was parsed
C18_Witness ==
  /\ ParsedOk
  /\ \E i \in 1..Len(ParsedBlocks) : ParsedBlocks[i].enclosing >= 1

\* C19: every block the parser produces has the indent level of the block
\* enclosing it plus exactly 1, whatever widths the source indents by
C19_IndentLevelsStepByOne ==
  ParsedOk =>
    \A i \in 1..Len(ParsedBlocks) :
      ParsedBlocks[i].level = ParsedBlocks[i].enclosing + 1

CompareOpEndingAt(tokens, k) ==
  LET kind == tokens[k].kind
      before == IF k > 1 THEN tokens[k - 1].kind ELSE KEof
  IN CASE kind.tag = "Operator" /\ kind.op \in {"Eq", "NotEq", "Lt", "LtEq", "Gt", "GtEq"} ->
            kind.op
       [] is_keyword(kind, "In") -> IF is_keyword(before, "Not") THEN "NotIn" ELSE "In"
       [] is_keyword(kind, "Not") /\ is_keyword(before, "Is") -> "IsNot"
       [] is_keyword(kind, "Is") -> "Is"
       [] OTHER -> ""

\* the Compare nodes of the parsed program
ParsedCompares == SelectSeq(ParsedNodes, LAMBDA n : "kind" \in DOMAIN n /\ n.kind = "Compare")

\* a name or a literal: a node of one token
OneTokenNode(n) == n.kind \in {"Identifier", "Literal"}

\* C21: every Compare node the parser produces has as many operators as
\* comparators and at least one, operator i being the one written just before
\* comparator i; an expression without a comparison operator is not a Compare
C21_CompareShape ==
  ParsedOk =>
    \A i \in 1..Len(ParsedCompares) :
      LET n == ParsedCompares[i] IN
      /\ Len(n.ops) = Len(n.comparators)
      /\ Len(n.ops) >= 1
      /\ \A j \in 1..Len(n.comparators) :
           OneTokenNode(n.comparators[j]) =>
             n.ops[j] = CompareOpEndingAt(parsed.result.program.tokens,
                                          n.comparators[j].meta.token_range.start)

\* C21 happens: a chain of two comparisons was parsed into one Compare node
C21_Witness ==
  /\ ParsedOk
  /\ \E i \in 1..Len(ParsedCompares) : Len(ParsedCompares[i].ops) = 2

\* the parser ran: the source lexed and its tokens were handed to parse_program
ParserRan == parsed.some /\ lex(source).ok

\* C28: while it parses the tokens of a source the parser never moves its cursor
\* beyond the final end-of-input token and never reads a token out of bounds, and
\* it ends with a Program or with a ParseError
C28_CursorStaysInBounds ==
  ParserRan =>
    /\ ~parsed.result.past_eof
    /\ ~parsed.result.panicked
    /\ parsed.result.ok => "program" \in DOMAIN parsed.result
    /\ ~parsed.result.ok => "error" \in DOMAIN parsed.result

\* C28 happens: a source whose last statement runs up to the end of input, with no
\* newline before it, was parsed
C28_Witness ==
  ParsedOk /\ source = PieceMatch \o LineNoNewline

\* the Indent and Dedent tokens of a token list, in order
StructuralKinds(tokens) ==
  LET marks == SelectSeq(tokens, LAMBDA t : t.kind.tag \in {"Indent", "Dedent"})
  IN [i \in 1..Len(marks) |-> marks[i].kind]

\* what one iteration of the inserter's loop must do with the token it is given:
\* before is the inserter's state, after its state one iteration later, emitted
\* the tokens the iteration appended to the output
IndentStackRule(before, after, token, emitted) ==
  LET stack == before.indent_stack
      T == stack[Len(stack)]
      p == before.pending_indent
      first_of_line ==
        /\ p.some
        /\ token.kind.tag \notin
             {"Indentation", "Comment", "RawWhitespace", "Blank", "Newline", "Eof"}
  IN /\ Len(after.output) >= Len(before.output)
     /\ SubSeq(after.output, 1, Len(before.output)) = before.output
     /\ IF token.kind.tag = "Eof"
        THEN /\ StructuralKinds(emitted) = [i \in 1..(Len(stack) - 1) |-> KDedent(0)]
             /\ after.indent_stack = <<0>>
             /\ emitted[Len(emitted)] = token
        ELSE IF first_of_line /\ p.level > T /\ p.level > 0
        THEN /\ after.indent_stack = Append(stack, p.level)
             /\ StructuralKinds(emitted) = <<KIndent(p.level)>>
        ELSE IF first_of_line /\ p.level < T
        THEN /\ after.indent_stack = SelectSeq(stack, LAMBDA w : w <= p.level)
             /\ StructuralKinds(emitted) =
                  [i \in 1..(Len(stack) - Len(after.indent_stack)) |-> KDedent(p.level)]
             /\ Len(after.indent_stack) < Len(stack)
        ELSE /\ after.indent_stack = stack
             /\ StructuralKinds(emitted) = <<>>

\* C22: the inserter starts with the stack [0]; the first token of a line that is
\* neither trivia nor a newline, arriving with buffered width W on stack top T,
\* pushes W and emits one Indent{W} when W > T and W > 0, pops while the top is
\* above W and emits one Dedent{W} per pop when W < T, and emits nothing
\* structural when W = T; any other token leaves the stack alone; the end of input
\* emits one Dedent{0} per frame above the base and leaves the stack at [0]
C22_IndentStackRule ==
  /\ [](inserter.some /\ inserter.next = 1 => inserter.st.indent_stack = <<0>>)
  /\ [][(inserter.some /\ inserter'.some /\ inserter'.next = inserter.next + 1) =>
          IndentStackRule(inserter.st, inserter'.st, inserter.tokens[inserter.next],
                          SubSeq(inserter'.st.output, Len(inserter.st.output) + 1,
                                 Len(inserter'.st.output)))]_vars

\* the inserter has gone through all its tokens
InserterDone == inserter.some /\ inserter.next > Len(inserter.tokens)

\* C22 happens: the inserter finished a source in which a line indented, and a
\* later line dedented to a width above zero
C22_Witness ==
  /\ InserterDone
  /\ \E i, j \in 1..Len(inserter.st.output) :
       /\ i < j
       /\ inserter.st.output[i].kind.tag = "Indent"
       /\ inserter.st.output[j].kind.tag = "Dedent"
       /\ inserter.st.output[j].kind.level > 0

\* how many of the first k tokens have the tag
CountTag(tokens, k, tag) == Cardinality({i \in 1..k : tokens[i].kind.tag = tag})

\* C23: while the inserter runs its stack is strictly increasing from the base 0,
\* every prefix of its output holds at least as many Indents as Dedents, the
\* difference over the whole output being the stack depth minus 1; the complete
\* output holds as many Dedents as Indents, all of them before the final Eof
C23_IndentDedentBalance ==
  inserter.some =>
    LET stack == inserter.st.indent_stack
        output == inserter.st.output
    IN /\ stack # <<>> /\ stack[1] = 0
       /\ \A i \in 1..(Len(stack) - 1) : stack[i] < stack[i + 1]
       /\ \A k \in 0..Len(output) :
            CountTag(output, k, "Indent") >= CountTag(output, k, "Dedent")
       /\ CountTag(output, Len(output), "Indent") - CountTag(output, Len(output), "Dedent")
            = Len(stack) - 1
       /\ InserterDone =>
            /\ CountTag(output, Len(output), "Indent") = CountTag(output, Len(output), "Dedent")
            /\ output # <<>> /\ output[Len(output)].kind.tag = "Eof"
            /\ CountTag(output, Len(output), "Eof") = 1

\* C23 happens: the inserter finished a source with two nested indents that only
\* the end of input closes
C23_Witness ==
  /\ InserterDone
  /\ CountTag(inserter.st.output, Len(inserter.st.output), "Indent") = 2
  /\ \A i \in 1..Len(inserter.st.output) :
       inserter.st.output[i].kind.tag = "Dedent" => inserter.st.output[i].kind.level = 0

\* the positions 1..n in order
Positions(n) == [i \in 1..n |-> i]

\* the positions of the tokens of a raw token list that are not trivia
SignificantPositions(raw) == SelectSeq(Positions(Len(raw)), LAMBDA i : ~is_trivia(raw[i].kind))

\* where the trivium at position i of a raw token list belongs: behind the
\* significant token before it when that token is neither an Indent, a Dedent nor
\* a Newline, and otherwise in front of the next significant token that is not a
\* Newline; at is the position of that token, 0 when there is none
TriviaOwner(raw, i) ==
  LET before == {j \in 1..(i - 1) : ~is_trivia(raw[j].kind)}
      prev == IF before = {} THEN 0 ELSE CHOOSE j \in before : \A k \in before : k <= j
      after == {j \in (i + 1)..Len(raw) :
                  ~is_trivia(raw[j].kind) /\ raw[j].kind.tag # "Newline"}
      next == IF after = {} THEN 0 ELSE CHOOSE j \in after : \A k \in after : j <= k
  IN IF prev > 0 /\ raw[prev].kind.tag \notin {"Indent", "Dedent", "Newline"}
     THEN [slot |-> "trailing", at |-> prev]
     ELSE [slot |-> "leading", at |-> next]

\* the trivia that belong in the slot of the token at position at, in source order
OwnedTrivia(raw, at, slot) ==
  LET owned == SelectSeq(Positions(Len(raw)),
                 LAMBDA i : is_trivia(raw[i].kind)
                            /\ TriviaOwner(raw, i) = [slot |-> slot, at |-> at])
  IN [k \in 1..Len(owned) |-> trivia_from_token(raw[owned[k]])]

\* C24: attach_trivia keeps the significant tokens in order and gives each of them
\* exactly the trivia that belong to it, in source order: as trailing trivia those
\* that follow it before the next significant token when it is not structural, as
\* leading trivia those that wait for the next token that is not a Newline (the
\* Eof at the end of input included); no trivium is dropped or attached twice,
\* and a Newline carries none
C24_TriviaAttachment ==
  attached.some =>
    LET raw == attached.raw_tokens
        sig == SignificantPositions(raw)
    IN /\ Len(attached.tokens) = Len(sig)
       /\ \A i \in 1..Len(raw) : is_trivia(raw[i].kind) => TriviaOwner(raw, i).at > 0
       /\ \A k \in 1..Len(sig) :
            /\ attached.tokens[k].kind = raw[sig[k]].kind
            /\ attached.tokens[k].span = raw[sig[k]].span
            /\ attached.tokens[k].raw = raw[sig[k]].raw
            /\ attached.tokens[k].leading_trivia = OwnedTrivia(raw, sig[k], "leading")
            /\ attached.tokens[k].trailing_trivia = OwnedTrivia(raw, sig[k], "trailing")
            /\ raw[sig[k]].kind.tag = "Newline" =>
                 /\ attached.tokens[k].leading_trivia = <<>>
                 /\ attached.tokens[k].trailing_trivia = <<>>

\* C24 happens: trivia was attached in a source where a comment trails a token and
\* another comment, alone on its line, waits for the token after its newline
C24_Witness ==
  /\ attached.some
  /\ \E k \in 1..Len(attached.tokens) :
       \E t \in 1..Len(attached.tokens[k].trailing_trivia) :
         attached.tokens[k].trailing_trivia[t].kind.tag = "Comment"
  /\ \E k \in 1..Len(attached.tokens) :
       \E t \in 1..Len(attached.tokens[k].leading_trivia) :
         attached.tokens[k].leading_trivia[t].kind.tag = "Comment"

\* a round of the lexer's loop ran from one working state to another
LexedOn ==
  /\ lexer.some /\ lexer'.some /\ lexer.r.more /\ lexer' # lexer
  /\ lexer.r.ok /\ lexer'.r.ok

\* the tokens the round pushed
Pushed ==
  SubSeq(lexer'.r.lx.tokens, Len(lexer.r.lx.tokens) + 1, Len(lexer'.r.lx.tokens))

\* how many of the tokens have one of the tags
CountTags(tokens, tags) == Cardinality({i \in 1..Len(tokens) : tokens[i].kind.tag \in tags})

\* C25: every opening bracket the lexer reads raises paren_depth by one and every
\* closing bracket lowers it by one, but not below zero; a round that begins with
\* paren_depth > 0 pushes no Newline, Blank or Indentation token, and pushes a
\* newline character as a RawWhitespace token
C25_BracketSuppression ==
  /\ [](lexer.some /\ lexer.r.ok => lexer.r.lx.paren_depth >= 0)
  /\ [][LexedOn =>
          LET depth == lexer.r.lx.paren_depth
              opens == CountTags(Pushed, {"LParen", "LBracket", "LBrace"})
              closes == CountTags(Pushed, {"RParen", "RBracket", "RBrace"})
          IN /\ opens + closes <= 1
             /\ lexer'.r.lx.paren_depth =
                  IF closes = 1 THEN (IF depth > 0 THEN depth - 1 ELSE 0) ELSE depth + opens
             /\ depth > 0 =>
                  /\ CountTags(Pushed, {"Newline", "Blank", "Indentation"}) = 0
                  /\ peek_char(lexer.r.lx) = NL =>
                       /\ Len(Pushed) = 1
                       /\ Pushed[1].kind = KRawWhitespace(<<NL>>)
                       /\ Pushed[1].raw = <<NL>>]_vars

\* C25 happens: the lexer stands inside an open bracket, a newline behind it,
\* and earlier met a closing bracket at depth zero
C25_Witness ==
  /\ lexer.some /\ lexer.r.ok /\ lexer.r.lx.paren_depth > 0
  /\ \E i, j \in 1..Len(lexer.r.lx.tokens) :
       /\ i < j
       /\ lexer.r.lx.tokens[i].kind.tag = "RParen"
       /\ \A k \in 1..(i - 1) : lexer.r.lx.tokens[k].kind.tag # "LParen"
       /\ lexer.r.lx.tokens[j].kind = KRawWhitespace(<<NL>>)

\* the tokens of a line: those behind the last token that is a newline character
LineOf(tokens) ==
  LET ends == {i \in 1..Len(tokens) : tokens[i].raw = <<NL>>}
      from == IF ends = {} THEN 0 ELSE CHOOSE i \in ends : \A j \in ends : j <= i
  IN SubSeq(tokens, from + 1, Len(tokens))

\* the line holds no content token
WithoutContent(tokens) ==
  \A i \in 1..Len(tokens) :
    tokens[i].kind.tag \in {"RawWhitespace", "Comment", "Blank", "Indentation", "Newline", "Eof"}

\* C26: a round of the lexer pushes a Blank token only together with a Newline
\* token, directly before it and of width zero, and it pushes one with a Newline
\* exactly when no content token was pushed since the line began
C26_BlankMarkers ==
  [][LexedOn =>
      LET n == Len(Pushed)
          ends_line == n > 0 /\ Pushed[n].kind.tag = "Newline"
          before == SubSeq(lexer'.r.lx.tokens, 1, Len(lexer'.r.lx.tokens) - 1)
          marked == n > 1 /\ Pushed[n - 1].kind.tag = "Blank"
      IN /\ CountTags(Pushed, {"Blank"}) = IF ends_line /\ marked THEN 1 ELSE 0
         /\ ends_line =>
              /\ lexer.r.lx.paren_depth = 0
              /\ marked <=> WithoutContent(LineOf(SubSeq(before, 1, Len(before)
                                                          - (IF marked THEN 1 ELSE 0))))
              /\ marked =>
                   /\ Pushed[n - 1].kind = KBlank("Source")
                   /\ Pushed[n - 1].raw = <<>>
                   /\ Pushed[n - 1].span.start = Pushed[n - 1].span.end
                   /\ Pushed[n - 1].span.start = Pushed[n].span.start]_vars

\* C26 happens: the lexer finished a source with a blank marker on a line that
\* holds only a comment and none on a line that holds a name
C26_Witness ==
  /\ lexer.some /\ lexer.done
  /\ \E i \in 2..Len(lexer.lexed.tokens) :
       /\ lexer.lexed.tokens[i].kind.tag = "Blank"
       /\ lexer.lexed.tokens[i - 1].kind.tag = "Comment"
  /\ \E i \in 2..Len(lexer.lexed.tokens) :
       /\ lexer.lexed.tokens[i].kind.tag = "Newline"
       /\ lexer.lexed.tokens[i - 1].kind.tag = "Identifier"

\* the columns of an indentation text: 1 for a space, 4 for a tab
RECURSIVE Columns(_)
Columns(raw) ==
  IF raw = <<>> THEN 0
  ELSE (IF Head(raw) = TAB THEN 4 ELSE 1) + Columns(Tail(raw))

\* the Indentation tokens of non-zero width
Indented(tokens) ==
  SelectSeq(tokens, LAMBDA t : t.kind.tag = "Indentation" /\ t.kind.width > 0)

\* C27: the indent width the lexer returns, which is the parsed program's, is the
\* width of the first Indentation token of non-zero width, a space counting 1
\* column and a tab 4, and is 4 when there is none; once set it does not change
C27_IndentWidthInference ==
  /\ [](lexer.some /\ lexer.done =>
          LET tokens == lexer.lexed.tokens IN
          /\ \A i \in 1..Len(tokens) :
               tokens[i].kind.tag = "Indentation" =>
                 tokens[i].kind.width = Columns(tokens[i].raw)
          /\ lexer.lexed.indent_width =
               IF Indented(tokens) = <<>> THEN 4 ELSE Columns(Indented(tokens)[1].raw)
          /\ (attached.some /\ Program_parse(source, ParserConfig_default).ok) =>
               Program_parse(source, ParserConfig_default).program.indent_width
                 = lexer.lexed.indent_width)
  /\ [][(LexedOn /\ lexer.r.lx.indent_width.some) =>
          lexer'.r.lx.indent_width = lexer.r.lx.indent_width]_vars

\* C27 happens: the lexer finished a source whose first indented line is a line of
\* three spaces and whose next line is indented by another width
C27_Witness ==
  /\ lexer.some /\ lexer.done
  /\ lexer.lexed.indent_width = 3
  /\ Len(Indented(lexer.lexed.tokens)) >= 2
  /\ Indented(lexer.lexed.tokens)[2].kind.width # 3

\* the child of invocation i still runs although more than TIMEOUT_SECS have
\* elapsed since the invocation started it
RunsPastDeadline(i) ==
  children[i].status = "running" /\ Instants[runs[i].elapsed] > TIMEOUT_SECS

\* invocation i returned Ok(RunResult)
Returned(i) == runs[i].pc = "returned"

\* C29: when the child still runs after more than TIMEOUT_SECS, run_python kills
\* it and then returns a RunResult with timed_out set and the notice on stderr
\* (unless waiting for the child fails); when the child ended by itself within
\* TIMEOUT_SECS, run_python sends no kill and returns timed_out unset
C29_RunTimeout ==
  /\ \A i \in Runs :
       RunsPastDeadline(i) ~>
         \/ runs[i].pc = "failed"
         \/ /\ Returned(i) /\ runs[i].killed
            /\ runs[i].result.val.timed_out /\ runs[i].result.val.timeout_notice
  /\ [](\A i \in Runs :
          (Returned(i) /\ children[i].cause = "own"
             /\ children[i].exited_at <= TIMEOUT_SECS) =>
            ~runs[i].killed /\ ~runs[i].result.val.timed_out)

\* every invocation of run_python has returned, with a result or with an error
AllRunsReturned == \A i \in Runs : runs[i].pc \in {"returned", "failed"}

\* C30: whatever the interleaving, a stop_python called while a child runs kills a
\* child that runs and reports it stopped, stop_python reports that nothing runs
\* only when it was called while no child ran, and RUNNING_PID is None once every
\* run_python has returned
C30_RunningProcessTracking ==
  /\ stop.report = "stopped" => (stop.running # {} => stop.pid.val \in stop.running)
  /\ stop.report = "nothing running" => stop.running = {}
  /\ AllRunsReturned /\ stop.pc = "idle" => RUNNING_PID = None

====
